---- MODULE Spec2Model ----
(***************************************************************************)
(* State-machine model of MSTAnalyzerGUI (src/MST_ultimateGUI_NT_V5.py):   *)
(* the analysis parameters, the ligand table, the loaded traces with their *)
(* reduced points and exclusion sets, the replicate selection, and the     *)
(* handlers that change them.                                              *)
(*                                                                         *)
(* Numbers.  A float is a pair <<n, d>>: the rational n/d in lowest terms  *)
(* with d > 0, or <<1, 0>> for +inf, or <<0, 0>> for NaN.  Times are       *)
(* integers counting half seconds (-1.5 s is -3).  Concentrations are      *)
(* held in micromolar, so the code's mM -> M factor 1e-3 is the factor     *)
(* 1000 (mM -> uM) here.  A text typed into an entry widget is a record    *)
(* [ok, val]: ok says whether float() accepts the text.                    *)
(***************************************************************************)
EXTENDS Integers, Sequences, FiniteSets, TLC

\* ------------------------------------------------------------------------
\* Bounds of the model
\* ------------------------------------------------------------------------
MaxPicks == 2

\* ------------------------------------------------------------------------
\* Float arithmetic
\* ------------------------------------------------------------------------
NaN == <<0, 0>>
Inf == <<1, 0>>

IsNaN(x) == x[2] = 0 /\ x[1] = 0
IsInf(x) == x[2] = 0 /\ x[1] # 0
IsFinite(x) == x[2] # 0

Abs(n) == IF n < 0 THEN 0 - n ELSE n

RECURSIVE GCD(_, _)
GCD(a, b) == IF b = 0 THEN a ELSE GCD(b, a % b)

Rat(n, d) ==
    LET s == IF d < 0 THEN 0 - 1 ELSE 1
        g == GCD(Abs(n), Abs(d))
    IN  <<(s * n) \div g, (s * d) \div g>>

Num(k) == <<k, 1>>

FAdd(a, b) == Rat(a[1] * b[2] + b[1] * a[2], a[2] * b[2])
FMul(a, b) == Rat(a[1] * b[1], a[2] * b[2])
FLt(a, b) == a[1] * b[2] < b[1] * a[2]
FLeq(a, b) == a[1] * b[2] <= b[1] * a[2]
FIsZero(a) == a[2] # 0 /\ a[1] = 0

\* a / b as numpy float64 division (operands here are never negative)
FDiv(a, b) ==
    IF IsNaN(a) \/ IsNaN(b) THEN NaN
    ELSE IF IsInf(b) THEN (IF IsInf(a) THEN NaN ELSE Num(0))
    ELSE IF FIsZero(b) THEN (IF FIsZero(a) THEN NaN ELSE Inf)
    ELSE IF IsInf(a) THEN Inf
    ELSE Rat(a[1] * b[2], a[2] * b[1])

RECURSIVE FPow(_, _)
FPow(a, i) == IF i = 0 THEN Num(1) ELSE FMul(a, FPow(a, i - 1))

RECURSIVE FSum(_, _)
FSum(f, S) ==
    IF S = {} THEN Num(0)
    ELSE LET k == CHOOSE x \in S : TRUE
         IN  FAdd(f[k], FSum(f, S \ {k}))

\* pandas Series.mean() of the values f[k], k in S: NaN entries are skipped,
\* an empty selection gives NaN
SeriesMean(f, S) ==
    LET V == {k \in S : ~IsNaN(f[k])}
    IN  IF V = {} THEN NaN
        ELSE IF \E k \in V : IsInf(f[k]) THEN Inf
        ELSE FDiv(FSum(f, V), Num(Cardinality(V)))

\* ------------------------------------------------------------------------
\* float64 arithmetic with signed infinities and NaN
\* ------------------------------------------------------------------------
ENeg(a) == <<0 - a[1], a[2]>>

EAdd(a, b) ==
    IF IsNaN(a) \/ IsNaN(b) THEN NaN
    ELSE IF IsInf(a) /\ IsInf(b) THEN (IF a = b THEN a ELSE NaN)
    ELSE IF IsInf(a) THEN a
    ELSE IF IsInf(b) THEN b
    ELSE FAdd(a, b)

ESub(a, b) == EAdd(a, ENeg(b))

ESign(a) == IF a[1] > 0 THEN 1 ELSE IF a[1] < 0 THEN 0 - 1 ELSE 0

EMul(a, b) ==
    IF IsNaN(a) \/ IsNaN(b) THEN NaN
    ELSE IF IsInf(a) \/ IsInf(b)
    THEN (IF ESign(a) * ESign(b) = 0 THEN NaN ELSE <<ESign(a) * ESign(b), 0>>)
    ELSE FMul(a, b)

EDiv(a, b) ==
    IF IsNaN(a) \/ IsNaN(b) THEN NaN
    ELSE IF IsInf(a) /\ IsInf(b) THEN NaN
    ELSE IF IsInf(b) THEN Num(0)
    ELSE IF FIsZero(b) THEN (IF FIsZero(a) THEN NaN ELSE <<ESign(a), 0>>)
    ELSE IF IsInf(a) THEN <<ESign(a) * ESign(b), 0>>
    ELSE Rat(a[1] * b[2], a[2] * b[1])

\* a < b; false when either is NaN.  Finite numbers are compared by their
\* integer parts, then by their fractions
ELt(a, b) ==
    IF IsNaN(a) \/ IsNaN(b) \/ a = b THEN FALSE
    ELSE IF IsInf(a) THEN a[1] < 0
    ELSE IF IsInf(b) THEN b[1] > 0
    ELSE IF a[1] \div a[2] # b[1] \div b[2]
    THEN a[1] \div a[2] < b[1] \div b[2]
    ELSE (a[1] % a[2]) * b[2] < (b[1] % b[2]) * a[2]

ELeq(a, b) == ~IsNaN(a) /\ ~IsNaN(b) /\ (a = b \/ ELt(a, b))

\* np.maximum and np.minimum: NaN if either operand is NaN
EMaximum(a, b) ==
    IF IsNaN(a) \/ IsNaN(b) THEN NaN ELSE IF ELt(a, b) THEN b ELSE a

EMinimum(a, b) ==
    IF IsNaN(a) \/ IsNaN(b) THEN NaN ELSE IF ELt(b, a) THEN b ELSE a

\* np.clip(x, lo, hi) is minimum(maximum(x, lo), hi)
EClip(x, lo, hi) == EMinimum(EMaximum(x, lo), hi)

\* the largest r in lo..hi with r * r <= n, for lo * lo <= n
RECURSIVE ISqrtIn(_, _, _)
ISqrtIn(n, lo, hi) ==
    IF lo >= hi THEN lo
    ELSE LET mid == (lo + hi + 1) \div 2
         IN  IF mid * mid <= n THEN ISqrtIn(n, mid, hi)
             ELSE ISqrtIn(n, lo, mid - 1)

\* a square root is rounded to a multiple of 1 / (d * SqrtGrid), d being
\* the denominator of its operand; the root of the square of a rational
\* is exact
SqrtGrid == 1000

\* np.sqrt: NaN for NaN and for a negative operand
ESqrt(a) ==
    IF IsNaN(a) \/ a[1] < 0 THEN NaN
    ELSE IF IsInf(a) THEN Inf
    ELSE LET rn == ISqrtIn(a[1], 0, IF a[1] > 46340 THEN 46340 ELSE a[1])
             rd == ISqrtIn(a[2], 0, IF a[2] > 46340 THEN 46340 ELSE a[2])
         IN  IF rn * rn = a[1] /\ rd * rd = a[2] THEN Rat(rn, rd)
             ELSE Rat(ISqrtIn(a[1] * a[2] * SqrtGrid * SqrtGrid, 0,
                              a[1] * a[2] * SqrtGrid),
                      a[2] * SqrtGrid)

\* ------------------------------------------------------------------------
\* Entry texts
\* ------------------------------------------------------------------------
Text(v) == [ok |-> TRUE, val |-> v]
BadText == [ok |-> FALSE, val |-> NaN]
BadTime == [ok |-> FALSE, val |-> 0]

\* ------------------------------------------------------------------------
\* Names: a name is a sequence of characters
\* ------------------------------------------------------------------------
\* the list with the elements f[1], ..., f[n], evaluated once
AsList(f) == f \o <<>>

LowerChar(c) == CASE c = "A" -> "a" [] c = "B" -> "b" [] OTHER -> c
Lower(name) == AsList([k \in 1..Len(name) |-> LowerChar(name[k])])

\* str.startswith
StartsWith(name, prefix) ==
    /\ Len(prefix) <= Len(name)
    /\ \A k \in 1..Len(prefix) : name[k] = prefix[k]

\* str.endswith
EndsWith(name, suffix) ==
    /\ Len(suffix) <= Len(name)
    /\ \A k \in 1..Len(suffix) : name[Len(name) - Len(suffix) + k] = suffix[k]

\* str.strip (the only whitespace of the model is the blank)
RECURSIVE Strip(_)
Strip(name) ==
    IF name = <<>> THEN name
    ELSE IF Head(name) = " " THEN Strip(Tail(name))
    ELSE IF name[Len(name)] = " " THEN Strip(SubSeq(name, 1, Len(name) - 1))
    ELSE name

CsvSuffix == <<".", "c", "s", "v">>

\* len(expected_concentrations): range(16)
LadderLen == 16

\* sorted(...) of a set of numbers
RECURSIVE SortedSeq(_)
SortedSeq(S) ==
    IF S = {} THEN <<>>
    ELSE LET m == CHOOSE x \in S : \A y \in S : x <= y
         IN  <<m>> \o SortedSeq(S \ {m})

\* ------------------------------------------------------------------------
\* The files the input directory can hold.  A row is <<time, ratio, cap>>;
\* NoCap stands for a capillary cell that pd.to_numeric coerces to NaN.
\* ------------------------------------------------------------------------
NoCap == 0 - 1

FileA1 == <<"a", "1", ".", "c", "s", "v">>
FileA2 == <<"a", "2", ".", "c", "s", "v">>
FileB1 == <<"b", "1", ".", "c", "s", "v">>
FileTxt == <<"a", "3", ".", "t", "x", "t">>

RowsA1 == <<
    <<0 - 3, Num(2), 3>>, <<5, Num(1), 3>>,
    <<0 - 3, NaN, 1>>, <<0 - 3, Num(1), 1>>, <<0, Num(1), 1>>,
    <<5, Num(2), 1>>, <<8, Num(4), 1>>,
    <<0, Num(5), NoCap>>,
    <<0, Num(2), 2>>, <<5, Num(2), 2>>, <<8, Num(2), 2>>,
    <<0 - 3, Num(0), 4>>, <<0, Num(0), 4>>, <<5, Num(1), 4>> >>

RowsA2 == <<
    <<0 - 3, Num(1), 2>>, <<5, Num(5), 2>>,
    <<0 - 3, Num(1), 5>>, <<8, Inf, 5>> >>

\* LongCaps capillaries: the first two and the last two carry both windows,
\* the others have no sample after the F0 window
LongCaps == 17
FullCaps == {1, 2, LadderLen, LongCaps}
RowsB1 ==
    AsList([k \in 1..(LongCaps + 4) |->
        IF k <= LongCaps THEN <<0 - 3, Num(1), k>>
        ELSE LET cap == SortedSeq(FullCaps)[k - LongCaps]
             IN  <<5, Num(cap), cap>>])

\* a second measurement whose first capillary gives the Fnorm that the first
\* capillary of a1.csv gives
FileA4 == <<"a", "4", ".", "c", "s", "v">>
RowsA4 == <<
    <<0 - 3, Num(1), 1>>, <<5, Num(3), 1>>,
    <<0 - 3, Num(1), 2>>, <<5, Num(2), 2>> >>

\* a measurement whose three capillaries hold an infinite ratio in the F1
\* window
FileA5 == <<"a", "5", ".", "c", "s", "v">>
RowsA5 == <<
    <<0 - 3, Num(1), 1>>, <<5, Inf, 1>>,
    <<0 - 3, Num(1), 2>>, <<5, Inf, 2>>,
    <<0 - 3, Num(1), 3>>, <<5, Inf, 3>> >>

DiskRows(file_name) ==
    CASE file_name = FileA1 -> RowsA1
      [] file_name = FileA5 -> RowsA5
      [] file_name = FileA4 -> RowsA4
      [] file_name = FileA2 -> RowsA2
      [] file_name = FileB1 -> RowsB1
      [] OTHER -> <<>>

FullListing == <<FileA1, FileTxt, FileA2, FileB1>>

PairListing == <<FileA1, FileA4>>
SeedListing == <<FileA1, FileA5>>

\* what os.listdir can return
DirListings == { <<FileTxt>>, FullListing }

\* ------------------------------------------------------------------------
\* State
\* ------------------------------------------------------------------------
VARIABLES
    input_dir,                \* "" or the chosen folder
    ligand_info,              \* ordered dict: sequence of [key, max_conc, df]
    f0_start, f0_end, f1_start, f1_end,
    c_target,                 \* float, micromolar
    model_choice,
    all_data_points,          \* ordered dict of groups: sequence of
                              \*   [key, files: sequence of trace records]
    replicate_selection_vars, \* function on a set of <<group, file>> pairs
    ligand_group_selector,    \* current group key, <<>> when none
    picks,                    \* number of pick events so far
    toggled,                  \* history: the <<group, file, cap>> the user
                              \*   clicked an odd number of times
    last_op,                  \* history: outcome of the last handler
    processed_data,           \* history: what _get_processed_group_data
                              \*   returned to the last handler if that was
                              \*   export_main_plot_data, else InitialResult
    fit_attempt,              \* history: model handed to curve_fit by the
                              \*   last handler, "none" if it fitted nothing
    call,                     \* a call of one of the module's functions:
                              \*   [fn, args, done, out], NoCall when none
    overlay,                  \* what the export button of the latest
                              \*   overlay window holds: <<>> when there is
                              \*   none, else one record [group1_key, data1,
                              \*   group2_key, data2, model]; model is
                              \*   history: the model choice at that time
    overlay_export            \* history: the workbook that the last export
                              \*   of the latest overlay window wrote,
                              \*   NoExport if it wrote none

vars == <<input_dir, ligand_info, f0_start, f0_end, f1_start, f1_end, c_target,
          model_choice, all_data_points, replicate_selection_vars,
          ligand_group_selector, picks, toggled, last_op, processed_data,
          fit_attempt, call, overlay, overlay_export>>

\* no workbook: sheets are the sheets written, in order, each
\* [group, kind, labels, values, status]; raised is the exception that left
\* the handler
NoExport == [sheets |-> <<>>, raised |-> "none"]

NoCall == [fn |-> "none", args |-> <<>>, done |-> TRUE, out |-> <<>>]

Models == {"Hill", "Kd", "Dose-Response"}

\* ------------------------------------------------------------------------
\* Ordered-dict helpers
\* ------------------------------------------------------------------------
Range(s) == {s[k] : k \in 1..Len(s)}
Keys(d) == {d[k].key : k \in 1..Len(d)}
IndexOf(d, key) == CHOOSE k \in 1..Len(d) : d[k].key = key
Lookup(d, key) == d[IndexOf(d, key)]
FileNames(fs) == {fs[k].file_name : k \in 1..Len(fs)}
FileIndex(fs, fn) == CHOOSE k \in 1..Len(fs) : fs[k].file_name = fn

\* d[key] = value of a Python dict: an existing key keeps its position
DictSet(d, rec) ==
    IF rec.key \in Keys(d)
    THEN [d EXCEPT ![IndexOf(d, rec.key)] = rec]
    ELSE Append(d, rec)


\* ------------------------------------------------------------------------
\* recalculate_all_fnorms
\* ------------------------------------------------------------------------
FPositive(x) == ~IsNaN(x) /\ x[1] > 0

\* variant of expected_concentrations whose ladder starts one dilution late
expected_concentrationsShifted(max_conc, dilution) ==
    AsList([i \in 1..LadderLen |-> FDiv(max_conc, FPow(dilution, i))])

\* [max_conc / (dilution ** i) for i in range(16)]
expected_concentrations(max_conc, dilution) ==
    AsList([i \in 1..LadderLen |-> FDiv(max_conc, FPow(dilution, i - 1))])

\* variant of WindowRows that leaves out a sample at the window end
WindowRowsHalfOpen(data, cap_pos, start, end) ==
    {j \in 1..Len(data.Times) :
        /\ data.Capillary_Positions[j] = cap_pos
        /\ data.Times[j] >= start
        /\ data.Times[j] < end}

\* rows of one capillary whose time lies in the window: >= start and <= end
WindowRows(data, cap_pos, start, end) ==
    {j \in 1..Len(data.Times) :
        /\ data.Capillary_Positions[j] = cap_pos
        /\ data.Times[j] >= start
        /\ data.Times[j] <= end}

\* Fnorm = F1 / F0 if F0 not in [np.nan, 0] else np.nan
FnormOf(F0, F1) ==
    IF IsNaN(F0) \/ FIsZero(F0) THEN NaN ELSE FDiv(F1, F0)

CapFnorm(data, cap_pos, w) ==
    FnormOf(SeriesMean(data.Ratios, WindowRows(data, cap_pos, w.f0_start, w.f0_end)),
            SeriesMean(data.Ratios, WindowRows(data, cap_pos, w.f1_start, w.f1_end)))

\* the lists the loop over the capillaries of one file builds; caps is
\* history: the capillary position each stored point came from
ReducedPoints(data, info, w) ==
    LET expected == expected_concentrations(info.max_conc, info.df)
        unique_caps == SortedSeq(Range(data.Capillary_Positions))
        Fnorm == AsList([k \in 1..Len(unique_caps) |->
                            CapFnorm(data, unique_caps[k], w)])
        Yields(k) ==
            /\ k - 1 < Len(expected)
            /\ ~IsNaN(Fnorm[k])
            /\ FPositive(expected[k])
        kept == SelectSeq([k \in 1..Len(unique_caps) |-> k], Yields)
    IN  [concentrations |-> AsList([j \in 1..Len(kept) |-> expected[kept[j]]]),
         fnorms |-> AsList([j \in 1..Len(kept) |-> Fnorm[kept[j]]]),
         caps |-> AsList([j \in 1..Len(kept) |-> unique_caps[kept[j]]])]

\* variant of ReduceTrace that clears the exclusions
ReduceTraceReset(data, info, w) ==
    LET current_file == ReducedPoints(data, info, w)
    IN  [data EXCEPT !.concentrations = current_file.concentrations,
                     !.fnorms = current_file.fnorms,
                     !.caps = current_file.caps,
                     !.excluded_indices = {}]

\* the body of the loop over the files of one group: the stored lists are
\* replaced, excluded_indices is left as it is
ReduceTrace(data, info, w) ==
    LET current_file == ReducedPoints(data, info, w)
    IN  [data EXCEPT !.concentrations = current_file.concentrations,
                     !.fnorms = current_file.fnorms,
                     !.caps = current_file.caps]

recalculate_all_fnorms(adp, info, w) ==
    AsList([g \in 1..Len(adp) |->
        IF adp[g].key \notin Keys(info) THEN adp[g]
        ELSE [adp[g] EXCEPT !.files =
                AsList([f \in 1..Len(adp[g].files) |->
                    ReduceTrace(adp[g].files[f], Lookup(info, adp[g].key), w)])]])

Windows == [f0_start |-> f0_start, f0_end |-> f0_end,
            f1_start |-> f1_start, f1_end |-> f1_end]

\* ------------------------------------------------------------------------
\* Selection and the fit request of update_plot
\* ------------------------------------------------------------------------
\* group_selections.get(file_name, tk.BooleanVar(value=default)).get()
Selected(rsv, group, file_name, default) ==
    IF <<group, file_name>> \in DOMAIN rsv THEN rsv[<<group, file_name>>]
    ELSE default

\* on_pick: group_selections.get(file_name, tk.BooleanVar(value=False)).get()
SelectedForPick(rsv, group, file_name) == Selected(rsv, group, file_name, FALSE)

\* update_plot: group_selections.get(file_name, tk.BooleanVar(value=True)).get()
SelectedForPlot(rsv, group, file_name) == Selected(rsv, group, file_name, TRUE)

\* _get_processed_group_data with use_selected_replicates=True:
\* group_selections.get(file_name, tk.BooleanVar(value=True)).get()
SelectedForAveraging(rsv, group, file_name) ==
    Selected(rsv, group, file_name, TRUE)

\* concentrations of the points that reach the averaging in
\* _get_processed_group_data(group, use_selected_replicates=True)
ContributingConcs(adp, rsv, group) ==
    LET fs == Lookup(adp, group).files
        Sel == {f \in 1..Len(fs) :
                    SelectedForAveraging(rsv, group, fs[f].file_name)}
        Included(f) == {i \in 1..Len(fs[f].concentrations) :
                            (i - 1) \notin fs[f].excluded_indices}
    IN  UNION {{fs[f].concentrations[i] : i \in Included(f)} : f \in Sel}

MinFitPoints == 3

\* the model update_plot hands to curve_fit, "none" when it fits nothing
FitRequest(adp, rsv, group, model) ==
    IF group = <<>> \/ group \notin Keys(adp) THEN "none"
    ELSE IF Cardinality(ContributingConcs(adp, rsv, group)) >= MinFitPoints
         THEN model
         ELSE "none"

\* ------------------------------------------------------------------------
\* _get_processed_group_data(group, use_selected_replicates=True)
\* ------------------------------------------------------------------------
\* a - b for finite a and b
FSub(a, b) == Rat(a[1] * b[2] - b[1] * a[2], a[2] * b[2])

RECURSIVE Concat(_)
Concat(ss) == IF ss = <<>> THEN <<>> ELSE Head(ss) \o Concat(Tail(ss))

\* sorted(...) of a set of finite numbers
RECURSIVE SortedFloats(_)
SortedFloats(S) ==
    IF S = {} THEN <<>>
    ELSE LET m == CHOOSE x \in S : \A y \in S : FLeq(x, y)
         IN  <<m>> \o SortedFloats(S \ {m})

\* the indices idx of enumerate(zip(concentrations, fnorms))
ZipIndices(data) ==
    LET n == IF Len(data.concentrations) <= Len(data.fnorms)
             THEN Len(data.concentrations) ELSE Len(data.fnorms)
    IN  [i \in 1..n |-> i - 1]

\* variant of IncludedIndices that lets every point through
IncludedIndicesAll(data) == ZipIndices(data)

\* if idx not in data['excluded_indices']
IncludedIndices(data) ==
    SelectSeq(ZipIndices(data), LAMBDA idx : idx \notin data.excluded_indices)

\* variant of ExcludedIndices that reports every point
ExcludedIndicesAll(data) == ZipIndices(data)

\* else
ExcludedIndices(data) ==
    SelectSeq(ZipIndices(data), LAMBDA idx : idx \in data.excluded_indices)

\* the entry of individual_replicates_data for one file; Included_Index and
\* Excluded_Index are history: the position of each listed point in the trace
ReplicateData(data) ==
    LET inc == IncludedIndices(data)
        exc == ExcludedIndices(data)
    IN  [file_name |-> data.file_name,
         Concentration |->
             AsList([j \in 1..Len(inc) |-> data.concentrations[inc[j] + 1]]),
         Fnorm |-> AsList([j \in 1..Len(inc) |-> data.fnorms[inc[j] + 1]]),
         Excluded_Concentration |->
             AsList([j \in 1..Len(exc) |-> data.concentrations[exc[j] + 1]]),
         Excluded_Fnorm |->
             AsList([j \in 1..Len(exc) |-> data.fnorms[exc[j] + 1]]),
         Included_Index |-> inc,
         Excluded_Index |-> exc]

\* the rows one file appends to all_concs_for_averaging and
\* all_fnorms_for_averaging; file_name and idx are history
AveragingRows(rep) ==
    AsList([j \in 1..Len(rep.Concentration) |->
               [Concentration |-> rep.Concentration[j],
                Fnorm |-> rep.Fnorm[j],
                file_name |-> rep.file_name,
                idx |-> rep.Included_Index[j]]])

\* groupby('Concentration')['Fnorm'].agg('mean') of one group of values
GroupMean(vals) ==
    IF \E k \in 1..Len(vals) : IsInf(vals[k]) THEN Inf
    ELSE FDiv(FSum(vals, 1..Len(vals)), Num(Len(vals)))

\* variant of GroupVar with the population variance (ddof = 0)
GroupVarPopulation(vals) ==
    IF Len(vals) < 2 \/ (\E k \in 1..Len(vals) : IsInf(vals[k])) THEN NaN
    ELSE LET m == GroupMean(vals)
             sq == [k \in 1..Len(vals) |->
                       FMul(FSub(vals[k], m), FSub(vals[k], m))]
         IN  FDiv(FSum(sq, 1..Len(vals)), Num(Len(vals)))

\* the square of agg('std'): the sample variance (ddof = 1), NaN for fewer
\* than two values or when a value is infinite
GroupVar(vals) ==
    IF Len(vals) < 2 \/ (\E k \in 1..Len(vals) : IsInf(vals[k])) THEN NaN
    ELSE LET m == GroupMean(vals)
             sq == [k \in 1..Len(vals) |->
                       FMul(FSub(vals[k], m), FSub(vals[k], m))]
         IN  FDiv(FSum(sq, 1..Len(vals)), Num(Len(vals) - 1))

\* the square of Fnorm_sem: (Fnorm_std / sqrt(Replicate_Count)) ** 2 if
\* Replicate_Count > 1 else NaN
SemSquared(vals) ==
    IF Len(vals) > 1 THEN FDiv(GroupVar(vals), Num(Len(vals))) ELSE NaN

\* variant of GroupKeys that keeps the order of first appearance
GroupKeysUnsorted(rows) ==
    LET first == SelectSeq([k \in 1..Len(rows) |-> k],
                     LAMBDA k : \A j \in 1..(k - 1) :
                         rows[j].Concentration # rows[k].Concentration)
    IN  AsList([k \in 1..Len(first) |-> rows[first[k]].Concentration])

\* the keys of groupby('Concentration'): the distinct values, sorted
GroupKeys(rows) ==
    SortedFloats({rows[k].Concentration : k \in 1..Len(rows)})

\* grouped_data: one row per key
GroupedData(rows) ==
    LET keys == GroupKeys(rows)
        Vals(c) == LET at == SelectSeq(rows, LAMBDA r : r.Concentration = c)
                   IN  AsList([k \in 1..Len(at) |-> at[k].Fnorm])
    IN  AsList([k \in 1..Len(keys) |->
                   [Concentration |-> keys[k],
                    Fnorm_mean |-> GroupMean(Vals(keys[k])),
                    Fnorm_sem_sq |-> SemSquared(Vals(keys[k])),
                    Replicate_Count |-> Len(Vals(keys[k]))]])

\* Python's min and max of two numbers: the second is taken only if it
\* compares below (above) the first
PyMin(a, b) == IF ELt(b, a) THEN b ELSE a
PyMax(a, b) == IF ELt(a, b) THEN b ELSE a

\* np.min and np.max of a non-empty array
RECURSIVE ArrayMin(_)
ArrayMin(v) == IF Len(v) = 1 THEN v[1] ELSE EMinimum(v[1], ArrayMin(Tail(v)))

RECURSIVE ArrayMax(_)
ArrayMax(v) == IF Len(v) = 1 THEN v[1] ELSE EMaximum(v[1], ArrayMax(Tail(v)))

\* np.median of an array that is in ascending order
Median(v) ==
    IF Len(v) % 2 = 1 THEN v[(Len(v) + 1) \div 2]
    ELSE EDiv(EAdd(v[Len(v) \div 2], v[(Len(v) \div 2) + 1]), Num(2))

\* A decimal logarithm X is held by the number 10^X: np.log10(c) is c
\* itself (c in micromolar, which shifts every logarithm by the same 6),
\* X + k is 10^X * 10^k, the mean of X and Y is the root of 10^X * 10^Y,
\* and X <= Y is 10^X <= 10^Y
Log10(c) == c

LogPlus(q, k) ==
    IF k >= 0 THEN EMul(q, Num(10 ^ k)) ELSE EDiv(q, Num(10 ^ (0 - k)))

\* 10 ** X
Antilog(q) == q

\* np.median of logarithms that are in ascending order
LogMedian(v) ==
    IF Len(v) % 2 = 1 THEN v[(Len(v) + 1) \div 2]
    ELSE ESqrt(EMul(v[Len(v) \div 2], v[(Len(v) \div 2) + 1]))

\* kd_lower_bound, kd_upper_bound and the limits of the Kd seed, in
\* micromolar: 1e-12 M, 1e-2 M, 1e-9 M, 1e-6 M
kd_lower_bound == <<1, 1000000>>
kd_upper_bound == Num(10000)
KdSeedFloor == <<1, 1000>>
KdSeedCeiling == Num(1)

\* max(1e-9, min(median_ligand_conc_avg, self.c_target, 1e-6))
p0_kd_val_avg(avg_concs, target) ==
    PyMax(KdSeedFloor, PyMin(PyMin(Median(avg_concs), target), KdSeedCeiling))

\* the seed of the top: the largest mean, moved up by 0.01 if it equals the
\* smallest, clipped into the broad bounds (the swap of an inverted pair
\* never runs: the largest mean is not below the smallest)
p0_top_avg(avg_fnorms) ==
    LET min_val == ArrayMin(avg_fnorms)
        max_val == ArrayMax(avg_fnorms)
        bottom == IF ELt(max_val, min_val) THEN max_val ELSE min_val
        top == IF ELt(max_val, min_val) THEN min_val ELSE max_val
    IN  EClip(IF bottom = top /\ ~IsNaN(top) THEN EAdd(top, <<1, 100>>) ELSE top,
              PyMin(Num(0), ESub(min_val, <<1, 2>>)),
              PyMax(Num(3), EAdd(max_val, <<1, 2>>)))

p0_bottom_avg(avg_fnorms) ==
    LET min_val == ArrayMin(avg_fnorms)
        max_val == ArrayMax(avg_fnorms)
    IN  EClip(IF ELt(max_val, min_val) THEN max_val ELSE min_val,
              PyMin(Num(0), ESub(min_val, <<1, 2>>)),
              PyMax(Num(3), EAdd(max_val, <<1, 2>>)))

\* p0 and bounds as handed to curve_fit.  The third parameter of the Hill
\* and Dose-Response models is a logarithm
FitSeed(avg_concs, avg_fnorms, model, target) ==
    LET lo == PyMin(Num(0), ESub(ArrayMin(avg_fnorms), <<1, 2>>))
        hi == PyMax(Num(3), EAdd(ArrayMax(avg_fnorms), <<1, 2>>))
        bottom == p0_bottom_avg(avg_fnorms)
        top == p0_top_avg(avg_fnorms)
        avg_log_concs == AsList([k \in 1..Len(avg_concs) |-> Log10(avg_concs[k])])
    IN  CASE model = "Hill" ->
                 [p0 |-> <<bottom, top, LogMedian(avg_log_concs), Num(1)>>,
                  lower |-> <<lo, lo, LogPlus(ArrayMin(avg_log_concs), 0 - 2),
                              <<1, 10>> >>,
                  upper |-> <<hi, hi, LogPlus(ArrayMax(avg_log_concs), 2),
                              Num(5)>>]
          [] model = "Kd" ->
                 [p0 |-> <<bottom, top, p0_kd_val_avg(avg_concs, target)>>,
                  lower |-> <<lo, lo, kd_lower_bound>>,
                  upper |-> <<hi, hi, kd_upper_bound>>]
          [] OTHER ->
                 [p0 |-> <<bottom, top, LogMedian(avg_log_concs), Num(1)>>,
                  lower |-> <<lo, lo, LogPlus(ArrayMin(avg_log_concs), 0 - 2),
                              Num(0 - 5)>>,
                  upper |-> <<hi, hi, LogPlus(ArrayMax(avg_log_concs), 2),
                              Num(5)>>]

\* what the regression can do: return parameters, inside the bounds or on
\* the upper ones, or raise
FitErrors == {"RuntimeError", "ValueError", "OverflowError"}
Converged == {"converged", "converged_at_bound"}
FitOutcomes == Converged \cup FitErrors

\* the classes an exception is an instance of
ClassesOf(e) == {e, "Exception"}

\* variant of ExceptClauses without the final except Exception
ExceptClausesNarrow ==
    << [classes |-> {"RuntimeError", "ValueError"}, comment |-> "Fit failed"] >>

\* except (RuntimeError, ValueError) ... except Exception ...
ExceptClauses ==
    << [classes |-> {"RuntimeError", "ValueError"}, comment |-> "Fit failed"],
       [classes |-> {"Exception"},
        comment |-> "An unexpected error occurred during fit"] >>

\* curve_fit: it raises ValueError when a mean or a concentration is not
\* finite, when kd_model returns NaN because c_target is 0, when p0 is
\* outside the bounds and when a lower bound is not below its upper bound;
\* otherwise it does outcome
curve_fit(seed, avg_concs, avg_fnorms, model, target, outcome) ==
    IF \/ \E k \in 1..Len(avg_fnorms) : ~IsFinite(avg_fnorms[k])
       \/ \E k \in 1..Len(avg_concs) : ~IsFinite(avg_concs[k])
       \/ (model = "Kd" /\ FIsZero(target))
       \/ \E k \in 1..Len(seed.p0) :
              \/ ~ELeq(seed.lower[k], seed.p0[k])
              \/ ~ELeq(seed.p0[k], seed.upper[k])
              \/ ~ELt(seed.lower[k], seed.upper[k])
    THEN "ValueError"
    ELSE outcome

ModelComment(model) ==
    CASE model = "Hill" -> "Hill Model"
      [] model = "Kd" -> "Kd Model"
      [] OTHER -> "Dose-Response Model"

\* variant of InitialResult that starts with has_data set
InitialResultHasData ==
    [has_data |-> TRUE, avg_concs |-> <<>>, avg_fnorms |-> <<>>,
     avg_fnorms_errors |-> <<>>, replicate_counts |-> <<>>,
     fit_popt |-> <<>>, kd_or_ec50_result |-> NaN,
     fit_success |-> FALSE, fit_comment |-> "No data for fit.",
     individual_replicates_data |-> <<>>, seed |-> <<>>,
     averaged |-> <<>>, fit_outcome |-> "not_called", raised |-> "none"]

\* the result dict as first built; fit_popt is <<>> for None.
\* avg_fnorms_errors holds the square of each standard error.  History:
\* replicate_counts (the Replicate_Count column), averaged (the rows that
\* reach the groupby), seed (p0 and bounds handed to curve_fit),
\* fit_outcome (what curve_fit did) and raised (the exception that leaves
\* the function)
InitialResult ==
    [has_data |-> FALSE, avg_concs |-> <<>>, avg_fnorms |-> <<>>,
     avg_fnorms_errors |-> <<>>, replicate_counts |-> <<>>,
     fit_popt |-> <<>>, kd_or_ec50_result |-> NaN,
     fit_success |-> FALSE, fit_comment |-> "No data for fit.",
     individual_replicates_data |-> <<>>, seed |-> <<>>,
     averaged |-> <<>>, fit_outcome |-> "not_called", raised |-> "none"]

\* variant of FitRefused that lets two points through
FitRefusedBelowTwo(n) == ~(n >= MinFitPoints - 1)

\* the else branch of: if len(avg_fnorms) >= 3
FitRefused(n) == ~(n >= MinFitPoints)

\* variant of FitStep that marks the fit as successful before it computes
\* the result
FitStepSuccessFirst(result, model, target, outcome) ==
    LET seed == FitSeed(result.avg_concs, result.avg_fnorms, model, target)
        done == curve_fit(seed, result.avg_concs, result.avg_fnorms, model,
                          target, outcome)
        handlers == SelectSeq(ExceptClauses,
                        LAMBDA h : h.classes \cap ClassesOf(done) # {})
        tried == [result EXCEPT !.seed = seed, !.fit_outcome = done,
                                !.fit_success = TRUE]
    IN  IF done \in Converged
        THEN LET popt == IF done = "converged" THEN seed.p0 ELSE seed.upper
             IN  [tried EXCEPT
                     !.kd_or_ec50_result = IF model = "Kd" THEN popt[3]
                                           ELSE Antilog(popt[3]),
                     !.fit_comment = ModelComment(model),
                     !.fit_popt = popt]
        ELSE IF handlers # <<>>
        THEN [tried EXCEPT !.fit_comment = handlers[1].comment]
        ELSE [tried EXCEPT !.raised = done]

\* the try statement around curve_fit; the parameters it returns are p0 or
\* the upper bounds
FitStep(result, model, target, outcome) ==
    LET seed == FitSeed(result.avg_concs, result.avg_fnorms, model, target)
        done == curve_fit(seed, result.avg_concs, result.avg_fnorms, model,
                          target, outcome)
        handlers == SelectSeq(ExceptClauses,
                        LAMBDA h : h.classes \cap ClassesOf(done) # {})
        tried == [result EXCEPT !.seed = seed, !.fit_outcome = done]
    IN  IF done \in Converged
        THEN LET popt == IF done = "converged" THEN seed.p0 ELSE seed.upper
             IN  [tried EXCEPT
                     !.kd_or_ec50_result = IF model = "Kd" THEN popt[3]
                                           ELSE Antilog(popt[3]),
                     !.fit_success = TRUE,
                     !.fit_comment = ModelComment(model),
                     !.fit_popt = popt]
        ELSE IF handlers # <<>>
        THEN [tried EXCEPT !.fit_comment = handlers[1].comment]
        ELSE [tried EXCEPT !.raised = done]

_get_processed_group_data(adp, rsv, group, model, target, outcome) ==
    IF group \notin Keys(adp)
    THEN [InitialResult EXCEPT !.fit_comment = "Ligand group not found."]
    ELSE
    LET files == Lookup(adp, group).files
        sel == SelectSeq(files,
                   LAMBDA d : SelectedForAveraging(rsv, group, d.file_name))
        reps == AsList([k \in 1..Len(sel) |-> ReplicateData(sel[k])])
        all == Concat(AsList([k \in 1..Len(reps) |-> AveragingRows(reps[k])]))
        collected == [InitialResult EXCEPT !.individual_replicates_data = reps]
        reps_df == SelectSeq(all, LAMBDA r : ~IsNaN(r.Fnorm))
        grouped == GroupedData(reps_df)
        Column(F(_)) == AsList([k \in 1..Len(grouped) |-> F(grouped[k])])
        aggregated ==
            [collected EXCEPT
                !.has_data = TRUE,
                !.averaged = reps_df,
                !.avg_concs = Column(LAMBDA r : r.Concentration),
                !.avg_fnorms = Column(LAMBDA r : r.Fnorm_mean),
                !.avg_fnorms_errors = Column(LAMBDA r : r.Fnorm_sem_sq),
                !.replicate_counts = Column(LAMBDA r : r.Replicate_Count)]
    IN  IF all = <<>>
        THEN [collected EXCEPT !.fit_comment =
                 "No included data points for fitting in this group."]
        ELSE IF reps_df = <<>>
        THEN [collected EXCEPT !.fit_comment =
                 "No valid Fnorm data after filtering for this group."]
        ELSE IF FitRefused(Len(aggregated.avg_fnorms))
        THEN [aggregated EXCEPT !.fit_comment =
                 "Not enough unique data points for fit (need >= 3)."]
        ELSE FitStep(aggregated, model, target, outcome)

\* load_replicate_checkboxes: group_selections.setdefault(file_name, True)
load_replicate_checkboxes(adp, rsv, group) ==
    IF group = <<>> \/ group \notin Keys(adp) THEN rsv
    ELSE LET new == {<<group, fn>> : fn \in FileNames(Lookup(adp, group).files)}
                        \ DOMAIN rsv
         IN  [p \in DOMAIN rsv \cup new |-> IF p \in new THEN TRUE ELSE rsv[p]]

\* ------------------------------------------------------------------------
\* load_all_data
\* ------------------------------------------------------------------------
\* the texts of one row of the ligand table
Row(key, max, df) == [key |-> key, max |-> max, df |-> df]

MilliToMicro == 1000

\* the ligand tables the user can have typed
TableA == << Row(<<"a">>, Text(<<1, 1000>>), Text(Num(2))) >>
TableAB == << Row(<<"a">>, Text(<<1, 1000>>), Text(Num(2))),
              Row(<<"b">>, Text(<<1, 1000>>), Text(Num(2))) >>
TableUpper == << Row(<<"A">>, Text(<<1, 1000>>), Text(<<1, 2>>)) >>
TableOne == << Row(<<"a">>, Text(<<1, 1000>>), Text(Num(1))) >>
TableZero == << Row(<<"a">>, Text(Num(0)), Text(Num(2))) >>
TableNeg == << Row(<<"a">>, Text(<<1, 1000>>), Text(Num(0 - 2))) >>
TableBad == << Row(<<"a">>, Text(<<1, 1000>>), BadText) >>
TableBlank == << Row(<<" ">>, BadText, Text(Num(0))),
                 Row(<<"a", " ">>, Text(<<1, 1000>>), Text(Num(4))) >>

\* tables whose groups share files: "a" and "a1" both start a1.csv
TableOverlap == << Row(<<"a">>, Text(<<1, 1000>>), Text(Num(2))),
                   Row(<<"a", "1">>, Text(<<1, 1000>>), Text(Num(2))) >>
TableOverlapReversed == << Row(<<"a", "1">>, Text(<<1, 1000>>), Text(Num(2))),
                           Row(<<"a">>, Text(<<1, 1000>>), Text(Num(2))) >>
TableBothCases == << Row(<<"A">>, Text(<<1, 1000>>), Text(Num(2))),
                     Row(<<"b">>, Text(<<1, 1000>>), Text(Num(2))),
                     Row(<<"a">>, Text(<<1, 1000>>), Text(Num(2))) >>

LigandTables == {TableA, TableAB, TableUpper, TableOne, TableZero, TableNeg,
                 TableBad, TableBlank}

\* variant of RowRejected that tests the dilution factor only
RowRejectedDilutionOnly(row) ==
    \/ ~row.max.ok
    \/ ~row.df.ok
    \/ FLeq(row.df.val, Num(0))

\* float() raises ValueError, or max_conc <= 0 or df_val <= 0
RowRejected(row) ==
    \/ ~row.max.ok
    \/ ~row.df.ok
    \/ FLeq(FMul(row.max.val, Num(MilliToMicro)), Num(0))
    \/ FLeq(row.df.val, Num(0))

\* the loop over self.ligand_entries; ok = FALSE is the early return
RECURSIVE ParseLigandRows(_, _, _)
ParseLigandRows(rows, k, temp) ==
    IF k > Len(rows) THEN [ok |-> TRUE, info |-> temp]
    ELSE LET ligand_key == Strip(rows[k].key)
         IN  IF ligand_key = <<>> THEN ParseLigandRows(rows, k + 1, temp)
             ELSE IF RowRejected(rows[k]) THEN [ok |-> FALSE, info |-> temp]
             ELSE ParseLigandRows(rows, k + 1,
                      DictSet(temp, [key |-> ligand_key,
                                     max_conc |-> FMul(rows[k].max.val,
                                                       Num(MilliToMicro)),
                                     df |-> rows[k].df.val]))

\* the keys of ligand_info that file_name starts with, ignoring case
MatchingKeys(info, file_name) ==
    {k \in 1..Len(info) : StartsWith(Lower(file_name), Lower(info[k].key))}

\* variant of ligand_group_key without the break: the last match wins
ligand_group_keyLast(info, file_name) ==
    LET M == MatchingKeys(info, file_name)
    IN  IF M = {} THEN 0 ELSE CHOOSE m \in M : \A n \in M : n <= m

\* the position in ligand_info of the key the loop stops at, 0 for None
ligand_group_key(info, file_name) ==
    LET M == MatchingKeys(info, file_name)
    IN  IF M = {} THEN 0 ELSE CHOOSE m \in M : \A n \in M : m <= n

\* the trace record built from one file; prior holds the exclusion set that
\* is carried over
NewTrace(file_name, prior) ==
    LET rows == SelectSeq(DiskRows(file_name), LAMBDA r : r[3] # NoCap)
    IN  [file_name |-> file_name,
         Times |-> AsList([j \in 1..Len(rows) |-> rows[j][1]]),
         Ratios |-> AsList([j \in 1..Len(rows) |-> rows[j][2]]),
         Capillary_Positions |-> AsList([j \in 1..Len(rows) |-> rows[j][3]]),
         concentrations |-> <<>>, fnorms |-> <<>>, caps |-> <<>>,
         excluded_indices |-> prior]

HasTrace(adp, group, file_name) ==
    /\ group \in Keys(adp)
    /\ file_name \in FileNames(Lookup(adp, group).files)

TraceOf(adp, group, file_name) ==
    LET fs == Lookup(adp, group).files
    IN  fs[FileIndex(fs, file_name)]

\* variant of existing_excluded_indices that forgets the old exclusions
existing_excluded_indicesReset(old, group, file_name) == {}

existing_excluded_indices(old, group, file_name) ==
    IF HasTrace(old, group, file_name)
    THEN TraceOf(old, group, file_name).excluded_indices
    ELSE {}

\* the loop over csv_files
RECURSIVE LoadFiles(_, _, _, _, _)
LoadFiles(csv_files, k, info, old, new) ==
    IF k > Len(csv_files) THEN new
    ELSE LET file_name == csv_files[k]
             m == ligand_group_key(info, file_name)
         IN  IF m = 0 THEN LoadFiles(csv_files, k + 1, info, old, new)
             ELSE LET group == info[m].key
                      trace == NewTrace(file_name,
                                  existing_excluded_indices(old, group, file_name))
                      files == IF group \in Keys(new)
                               THEN Lookup(new, group).files ELSE <<>>
                  IN  LoadFiles(csv_files, k + 1, info, old,
                          DictSet(new, [key |-> group,
                                        files |-> Append(files, trace)]))

\* ------------------------------------------------------------------------
\* Handlers
\* ------------------------------------------------------------------------
__init__ ==
    /\ input_dir = ""
    /\ ligand_info = <<>>
    /\ f0_start = 0 - 3
    /\ f0_end = 0
    /\ f1_start = 5
    /\ f1_end = 8
    /\ c_target = Num(1)
    /\ model_choice = "Dose-Response"
    /\ all_data_points = <<>>
    /\ replicate_selection_vars = [p \in {} |-> TRUE]
    /\ ligand_group_selector = <<>>
    /\ picks = 0
    /\ toggled = {}
    /\ last_op = "init"
    /\ processed_data = InitialResult
    /\ fit_attempt = "none"

\* no pure function is called, no overlay window is open and no overlay
\* workbook was written
Init == __init__ /\ call = NoCall /\ overlay = <<>> /\ overlay_export = NoExport

\* update_ligand_group_selector: keep the current group if it still exists,
\* else take the first group, else the empty string
NextSelector(adp, current) ==
    IF Len(adp) = 0 THEN <<>>
    ELSE IF current \in Keys(adp) THEN current
    ELSE adp[1].key

\* [f for f in os.listdir(self.input_dir) if f.endswith(".csv")]
CsvFiles(listing) == SelectSeq(listing, LAMBDA f : EndsWith(f, CsvSuffix))

\* where load_all_data returns: at the folder check, at the Input Error
\* warning, at the No Files message, or at its end
LoadOutcome(dir, rows, listing) ==
    IF dir = "" THEN "load_nodir"
    ELSE IF ~ParseLigandRows(rows, 1, <<>>).ok THEN "load_rejected"
    ELSE IF CsvFiles(listing) = <<>> THEN "load_nofiles"
    ELSE "load_ok"

\* the exclusion history that survives a reload: that of the traces whose
\* exclusion set is carried over
CarriedOver(old, new, t) ==
    {x \in t : HasTrace(old, x[1], x[2]) /\ HasTrace(new, x[1], x[2])}

\* load_all_data, called with the folder dir, the texts of the ligand table
\* and the directory listing
LoadBody(dir, rows, listing) ==
    /\ last_op' = LoadOutcome(dir, rows, listing)
    /\ ligand_info' = IF last_op' \in {"load_nofiles", "load_ok"}
                      THEN ParseLigandRows(rows, 1, <<>>).info
                      ELSE ligand_info
    /\ all_data_points' =
           IF last_op' = "load_ok"
           THEN recalculate_all_fnorms(
                    LoadFiles(CsvFiles(listing), 1, ligand_info',
                              all_data_points, <<>>),
                    ligand_info', Windows)
           ELSE all_data_points
    /\ ligand_group_selector' =
           IF last_op' = "load_ok"
           THEN NextSelector(all_data_points', ligand_group_selector)
           ELSE ligand_group_selector
    /\ replicate_selection_vars' =
           IF last_op' = "load_ok"
           THEN load_replicate_checkboxes(all_data_points',
                    replicate_selection_vars, ligand_group_selector')
           ELSE replicate_selection_vars
    /\ toggled' = IF last_op' = "load_ok"
                  THEN CarriedOver(all_data_points, all_data_points', toggled)
                  ELSE toggled
    /\ fit_attempt' =
           IF last_op' = "load_ok"
           THEN FitRequest(all_data_points', replicate_selection_vars',
                           ligand_group_selector', model_choice)
           ELSE "none"

browse_folder(rows, listing) ==
    /\ input_dir' = "dir"
    /\ processed_data' = InitialResult
    /\ LoadBody("dir", rows, listing)
    /\ UNCHANGED <<call, overlay, overlay_export, f0_start, f0_end, f1_start, f1_end, c_target, model_choice,
                   picks>>

update_all_data_and_ui(rows, listing) ==
    /\ LoadBody(input_dir, rows, listing)
    /\ processed_data' = InitialResult
    /\ UNCHANGED <<call, overlay, overlay_export, input_dir, f0_start, f0_end, f1_start, f1_end, c_target,
                   model_choice, picks>>

\* the texts of the four window entries and of the target entry
Entries(a, b, c, d, t) ==
    [f0_start |-> a, f0_end |-> b, f1_start |-> c, f1_end |-> d, c_target |-> t]

TargetTexts == { Text(<<1, 1000>>), Text(Num(0)), BadText }

\* how many of the five assignments of update_params run before float()
\* raises ValueError: 5 when every text is a number
Assigned(e) ==
    IF ~e.f0_start.ok THEN 0
    ELSE IF ~e.f0_end.ok THEN 1
    ELSE IF ~e.f1_start.ok THEN 2
    ELSE IF ~e.f1_end.ok THEN 3
    ELSE IF ~e.c_target.ok THEN 4
    ELSE 5

\* update_params reading the entry texts e
ParamsBody(e) ==
    /\ f0_start' = IF Assigned(e) >= 1 THEN e.f0_start.val ELSE f0_start
    /\ f0_end' = IF Assigned(e) >= 2 THEN e.f0_end.val ELSE f0_end
    /\ f1_start' = IF Assigned(e) >= 3 THEN e.f1_start.val ELSE f1_start
    /\ f1_end' = IF Assigned(e) >= 4 THEN e.f1_end.val ELSE f1_end
    /\ c_target' = IF Assigned(e) >= 5
                   THEN FMul(e.c_target.val, Num(MilliToMicro))
                   ELSE c_target
    /\ last_op' = IF Assigned(e) = 5 /\ f0_start' < f0_end' /\ f1_start' < f1_end'
                  THEN "params_ok" ELSE "params_rejected"
    /\ all_data_points' =
           IF last_op' = "params_ok"
           THEN recalculate_all_fnorms(all_data_points, ligand_info, Windows')
           ELSE all_data_points
    /\ fit_attempt' =
           IF last_op' = "params_ok"
           THEN FitRequest(all_data_points', replicate_selection_vars,
                           ligand_group_selector, model_choice')
           ELSE "none"
    /\ processed_data' = InitialResult
    /\ UNCHANGED <<call, overlay, overlay_export, input_dir, ligand_info, replicate_selection_vars,
                   ligand_group_selector, picks, toggled>>

\* <Return> or <FocusOut> on one of the entries
update_params(e) ==
    /\ model_choice' = model_choice
    /\ ParamsBody(e)

\* a click on a model radio button: sets model_choice, then update_params
select_model(m, e) ==
    /\ m # model_choice
    /\ model_choice' = m
    /\ ParamsBody(e)

\* ------------------------------------------------------------------------
\* on_pick
\* ------------------------------------------------------------------------
RtolInv == 1000000000
\* np.isclose's default atol of 1e-8, as 1/AtolInv: Fnorm is a pure number,
\* a concentration is held in micromolar (1e-8 M = 1/100 uM)
FnormAtolInv == 100000000
ConcAtolInv == 100

\* np.isclose(a, b, rtol=1e-9): |a - b| <= atol + rtol * |b|, in integers:
\* with |a - b| = dn/dd and |b| = bn/bd the test is
\*     atolInv * dn <= dd + (bn * dd) / (bd * RtolInv / atolInv)
IsClose(a, b, atolInv) ==
    IF IsNaN(a) \/ IsNaN(b) THEN FALSE
    ELSE IF IsInf(a) \/ IsInf(b) THEN IsInf(a) /\ IsInf(b)
    ELSE LET d == Rat(Abs(a[1] * b[2] - b[1] * a[2]), a[2] * b[2])
             slack == ((Abs(b[1]) * d[2]) \div (RtolInv \div atolInv)) \div b[2]
         IN  d[1] <= (d[2] + slack) \div atolInv

\* the points the nested loops of on_pick test, in their order: <<f, i>> is
\* point i (from 1) of the f-th file of the group
PickMatches(fs, rsv, group, clicked_conc, clicked_fnorm) ==
    {x \in UNION {{<<f, i>> : i \in 1..Len(fs[f].concentrations)} :
                     f \in 1..Len(fs)} :
        /\ SelectedForPick(rsv, group, fs[x[1]].file_name)
        /\ IsClose(fs[x[1]].concentrations[x[2]], clicked_conc, ConcAtolInv)
        /\ IsClose(fs[x[1]].fnorms[x[2]], clicked_fnorm, FnormAtolInv)}

FirstMatch(M) ==
    CHOOSE x \in M : \A y \in M : x[1] < y[1] \/ (x[1] = y[1] /\ x[2] <= y[2])

\* variant of ToggleIndex that never removes an index
ToggleIndexAddOnly(excluded, i) == excluded \cup {i}

\* if i in excluded_indices: remove(i) else: add(i)
ToggleIndex(excluded, i) ==
    IF i \in excluded THEN excluded \ {i} ELSE excluded \cup {i}

\* the search of on_pick for the clicked coordinates and the toggle of the
\* first point it finds
PickResult(adp, rsv, group, clicked_conc, clicked_fnorm) ==
    LET g == IndexOf(adp, group)
        M == PickMatches(adp[g].files, rsv, group, clicked_conc, clicked_fnorm)
    IN  IF M = {} THEN adp
        ELSE [adp EXCEPT ![g].files[FirstMatch(M)[1]].excluded_indices =
                             ToggleIndex(@, FirstMatch(M)[2] - 1)]

Flip(S, x) == IF x \in S THEN S \ {x} ELSE S \cup {x}

\* the markers update_plot draws for the group on display: <<f, i>> for
\* every finite point i of every selected file f
Markers(adp, rsv, group) ==
    IF group = <<>> \/ group \notin Keys(adp) THEN {}
    ELSE LET fs == Lookup(adp, group).files
         IN  {x \in UNION {{<<f, i>> : i \in 1..Len(fs[f].fnorms)} :
                              f \in 1..Len(fs)} :
                 /\ SelectedForPlot(rsv, group, fs[x[1]].file_name)
                 /\ IsFinite(fs[x[1]].fnorms[x[2]])}

\* the user clicks the marker of point idx (from 1) of the cf-th file
on_pick(cf, idx) ==
    /\ picks < MaxPicks
    /\ <<cf, idx>> \in Markers(all_data_points, replicate_selection_vars,
                               ligand_group_selector)
    /\ all_data_points' =
           PickResult(all_data_points, replicate_selection_vars,
               ligand_group_selector,
               Lookup(all_data_points, ligand_group_selector).files[cf].concentrations[idx],
               Lookup(all_data_points, ligand_group_selector).files[cf].fnorms[idx])
    /\ toggled' =
           Flip(toggled,
                <<ligand_group_selector,
                  Lookup(all_data_points, ligand_group_selector).files[cf].file_name,
                  Lookup(all_data_points, ligand_group_selector).files[cf].caps[idx]>>)
    /\ fit_attempt' = FitRequest(all_data_points', replicate_selection_vars,
                                 ligand_group_selector, model_choice)
    /\ picks' = picks + 1
    /\ last_op' = "pick"
    /\ processed_data' = InitialResult
    /\ UNCHANGED <<call, overlay, overlay_export, input_dir, ligand_info, f0_start, f0_end, f1_start, f1_end,
                   c_target, model_choice, replicate_selection_vars,
                   ligand_group_selector>>

\* ------------------------------------------------------------------------
\* Replicate check boxes
\* ------------------------------------------------------------------------
\* the user flips the check box of a file of the group on display
on_replicate_toggle(file_name) ==
    /\ <<ligand_group_selector, file_name>> \in DOMAIN replicate_selection_vars
    /\ HasTrace(all_data_points, ligand_group_selector, file_name)
    /\ replicate_selection_vars' =
           [replicate_selection_vars EXCEPT
               ![<<ligand_group_selector, file_name>>] = ~@]
    /\ fit_attempt' = FitRequest(all_data_points, replicate_selection_vars',
                                 ligand_group_selector, model_choice)
    /\ last_op' = "toggle"
    /\ processed_data' = InitialResult
    /\ UNCHANGED <<call, overlay, overlay_export, input_dir, ligand_info, f0_start, f0_end, f1_start, f1_end,
                   c_target, model_choice, all_data_points,
                   ligand_group_selector, picks, toggled>>

\* ------------------------------------------------------------------------
\* Export
\* ------------------------------------------------------------------------
\* the Export button; outcome is what the regression does if it is free to
export_main_plot_data(outcome) ==
    /\ processed_data' =
           IF ligand_group_selector = <<>>
              \/ ligand_group_selector \notin Keys(all_data_points)
           THEN InitialResult
           ELSE _get_processed_group_data(all_data_points,
                    replicate_selection_vars, ligand_group_selector,
                    model_choice, c_target, outcome)
    /\ last_op' =
           IF ligand_group_selector = <<>>
              \/ ligand_group_selector \notin Keys(all_data_points)
           THEN "export_nogroup"
           ELSE IF processed_data'.raised # "none" THEN "export_raised"
           ELSE IF ~processed_data'.has_data THEN "export_nodata"
           ELSE "export_ok"
    /\ UNCHANGED <<call, overlay, overlay_export, input_dir, ligand_info, f0_start, f0_end, f1_start, f1_end,
                   c_target, model_choice, all_data_points,
                   replicate_selection_vars, ligand_group_selector, picks,
                   toggled, fit_attempt>>

\* ------------------------------------------------------------------------
\* Models for the fit
\* ------------------------------------------------------------------------
\* fraction_bound of kd_model for one ligand concentration c
fraction_bound(c, kd, target) ==
    LET s == EAdd(EAdd(c, target), kd)
        discriminant == ESub(EMul(s, s), EMul(EMul(Num(4), c), target))
        numerator == ESub(s, ESqrt(EMaximum(Num(0), discriminant)))
    IN  EClip(EDiv(numerator, EMul(Num(2), target)), Num(0), Num(1))

\* kd_model over the array c_ligand; target is its argument c_target
kd_model(c_ligand, unbound, bound, kd, target) ==
    IF FIsZero(target)
    THEN [k \in DOMAIN c_ligand |-> NaN]
    ELSE [k \in DOMAIN c_ligand |->
             EAdd(unbound,
                  EMul(ESub(bound, unbound),
                       fraction_bound(c_ligand[k], kd, target)))]

\* ------------------------------------------------------------------------
\* Formatting of concentrations; a string is a sequence of characters and
\* the micro sign is written "u"
\* ------------------------------------------------------------------------
DigitChars == <<"0", "1", "2", "3", "4", "5", "6", "7", "8", "9">>

\* the decimal digits of a natural number
RECURSIVE Digits(_)
Digits(n) ==
    IF n < 10 THEN <<DigitChars[n + 1]>>
    ELSE Digits(n \div 10) \o <<DigitChars[(n % 10) + 1]>>

TwoDigits(n) == <<DigitChars[(n \div 10) + 1], DigitChars[(n % 10) + 1]>>

\* x * 10^k for a finite x, reduced after each factor of ten
RECURSIVE Scale10(_, _)
Scale10(x, k) ==
    IF k = 0 THEN x
    ELSE IF k > 0 THEN Scale10(Rat(x[1] * 10, x[2]), k - 1)
    ELSE Scale10(Rat(x[1], x[2] * 10), k + 1)

\* the integer nearest to a finite x >= 0, a tie going to the even one
RoundHalfEven(x) ==
    LET q == x[1] \div x[2]
        r == x[1] % x[2]
    IN  IF 2 * r < x[2] THEN q
        ELSE IF 2 * r > x[2] THEN q + 1
        ELSE q + (q % 2)

\* format(x, '.2f') for x >= 0
Fixed2(x) ==
    IF IsInf(x) THEN <<"i", "n", "f">>
    ELSE LET cents == RoundHalfEven(Scale10(x, 2))
         IN  Digits(cents \div 100) \o <<".">> \o TwoDigits(cents % 100)

\* the e with 10^e <= x < 10^(e + 1), for a finite x > 0
RECURSIVE Exponent10(_)
Exponent10(x) ==
    IF x[1] \div x[2] >= 10 THEN Exponent10(Scale10(x, 0 - 1)) + 1
    ELSE IF x[1] < x[2] THEN Exponent10(Scale10(x, 1)) - 1
    ELSE 0

\* format(x, '.2e') for x >= 0
Scientific2(x) ==
    IF IsInf(x) THEN <<"i", "n", "f">>
    ELSE LET e0 == IF FIsZero(x) THEN 0 ELSE Exponent10(x)
             c0 == RoundHalfEven(Scale10(x, 2 - e0))
             e == IF c0 = 1000 THEN e0 + 1 ELSE e0
             c == IF c0 = 1000 THEN 100 ELSE c0
         IN  <<DigitChars[(c \div 100) + 1], ".">> \o TwoDigits(c % 100)
             \o <<"e", IF e < 0 THEN "-" ELSE "+">>
             \o (IF Abs(e) < 10 THEN <<"0">> ELSE <<>>) \o Digits(Abs(e))

\* variant of format_molar_conc whose fallback is the millimolar format
format_molar_concFallbackMilli(conc_molar, label, unit) ==
    IF IsNaN(conc_molar) THEN label \o <<" ", "=", " ", "N", "a", "N">>
    ELSE label \o <<" ", "=", " ">> \o
         (CASE unit = <<"M">> -> Scientific2(conc_molar) \o <<" ", "M">>
            [] unit = <<"m", "M">> ->
                   Fixed2(Scale10(conc_molar, 3)) \o <<" ", "m", "M">>
            [] unit = <<"u", "M">> ->
                   Fixed2(Scale10(conc_molar, 6)) \o <<" ", "u", "M">>
            [] unit = <<"n", "M">> ->
                   Fixed2(Scale10(conc_molar, 9)) \o <<" ", "n", "M">>
            [] unit = <<"p", "M">> ->
                   Fixed2(Scale10(conc_molar, 12)) \o <<" ", "p", "M">>
            [] OTHER -> Fixed2(Scale10(conc_molar, 3)) \o <<" ", "m", "M">>)

\* format_molar_conc; unit is self.display_unit.get()
format_molar_conc(conc_molar, label, unit) ==
    IF IsNaN(conc_molar) THEN label \o <<" ", "=", " ", "N", "a", "N">>
    ELSE label \o <<" ", "=", " ">> \o
         (CASE unit = <<"M">> -> Scientific2(conc_molar) \o <<" ", "M">>
            [] unit = <<"m", "M">> ->
                   Fixed2(Scale10(conc_molar, 3)) \o <<" ", "m", "M">>
            [] unit = <<"u", "M">> ->
                   Fixed2(Scale10(conc_molar, 6)) \o <<" ", "u", "M">>
            [] unit = <<"n", "M">> ->
                   Fixed2(Scale10(conc_molar, 9)) \o <<" ", "n", "M">>
            [] unit = <<"p", "M">> ->
                   Fixed2(Scale10(conc_molar, 12)) \o <<" ", "p", "M">>
            [] OTHER -> Scientific2(conc_molar) \o <<" ", "M">>)

\* ------------------------------------------------------------------------
\* Calls of the module's functions
\* ------------------------------------------------------------------------
Pending(fn, args) == [fn |-> fn, args |-> args, done |-> FALSE, out |-> <<>>]

\* arguments of kd_model: an array of two ligand concentrations
KdConcs == {Num(0), Num(1), Num(3), Inf}
KdCalls ==
    {Pending("kd_model",
             [c_ligand |-> <<c1, c2>>, unbound |-> Num(1), bound |-> Num(3),
              kd |-> kd, c_target |-> t]) :
        c1 \in KdConcs, c2 \in KdConcs,
        kd \in {Num(0), Num(1), Num(2)}, t \in {Num(0), Num(1), Num(2)}}

\* arguments of format_molar_conc: molar concentrations from 1.5e-9 to
\* 1.25e-5, 0, +inf and NaN; the units of the combobox and two others
FormatConcs ==
    {NaN, Inf, Num(0), <<3, 2000000000>>, <<1999, 2000000000>>,
     <<1, 1000000>>, <<1, 80000>>}
DisplayUnits == {<<"M">>, <<"m", "M">>, <<"u", "M">>, <<"n", "M">>, <<"p", "M">>}
OtherUnits == {<<>>, <<"k", "M">>}
FormatCalls ==
    {Pending("format_molar_conc",
             [conc_molar |-> c, label |-> l, unit |-> u]) :
        c \in FormatConcs, l \in {<<"K", "d">>, <<"E", "C", "5", "0">>},
        u \in DisplayUnits \cup OtherUnits}

Call_format_molar_conc ==
    /\ call.fn = "format_molar_conc"
    /\ ~call.done
    /\ call' = [call EXCEPT
           !.done = TRUE,
           !.out = format_molar_conc(call.args.conc_molar, call.args.label,
                                     call.args.unit)]
    /\ UNCHANGED <<overlay, overlay_export, input_dir, ligand_info, f0_start, f0_end, f1_start, f1_end,
                   c_target, model_choice, all_data_points,
                   replicate_selection_vars, ligand_group_selector, picks,
                   toggled, last_op, processed_data, fit_attempt>>

\* one call of kd_model; out.fraction_bound is history: the local of that
\* name, <<>> when the function returned before computing it
Call_kd_model ==
    /\ call.fn = "kd_model"
    /\ ~call.done
    /\ call' = [call EXCEPT
           !.done = TRUE,
           !.out = [value |-> kd_model(call.args.c_ligand, call.args.unbound,
                                       call.args.bound, call.args.kd,
                                       call.args.c_target),
                    fraction_bound |->
                        IF FIsZero(call.args.c_target) THEN <<>>
                        ELSE [k \in DOMAIN call.args.c_ligand |->
                                 fraction_bound(call.args.c_ligand[k],
                                     call.args.kd, call.args.c_target)]]]
    /\ UNCHANGED <<overlay, overlay_export, input_dir, ligand_info, f0_start, f0_end, f1_start, f1_end,
                   c_target, model_choice, all_data_points,
                   replicate_selection_vars, ligand_group_selector, picks,
                   toggled, last_op, processed_data, fit_attempt>>

\* ------------------------------------------------------------------------
\* Overlay plot and its export
\* ------------------------------------------------------------------------
\* the Generate Overlay Plot button with the two overlay selectors at g1 and
\* g2; o1 and o2 are what the two regressions do if they are free to.  The
\* export button of the new window keeps the two keys and the two results
generate_overlay_plot(g1, g2, o1, o2) ==
    /\ last_op' =
           IF g1 = <<>> \/ g2 = <<>> \/ g1 = g2
              \/ g1 \notin Keys(all_data_points)
              \/ g2 \notin Keys(all_data_points)
           THEN "overlay_rejected"
           ELSE "overlay_ok"
    /\ overlay' =
           IF last_op' = "overlay_rejected" THEN overlay
           ELSE << [group1_key |-> g1,
                    data1 |-> _get_processed_group_data(all_data_points,
                                  replicate_selection_vars, g1, model_choice,
                                  c_target, o1),
                    group2_key |-> g2,
                    data2 |-> _get_processed_group_data(all_data_points,
                                  replicate_selection_vars, g2, model_choice,
                                  c_target, o2),
                    model |-> model_choice] >>
    /\ fit_attempt' =
           IF last_op' = "overlay_ok"
              /\ \/ overlay'[1].data1.fit_outcome # "not_called"
                 \/ overlay'[1].data2.fit_outcome # "not_called"
           THEN model_choice
           ELSE "none"
    /\ overlay_export' =
           IF last_op' = "overlay_rejected" THEN overlay_export ELSE NoExport
    /\ processed_data' = InitialResult
    /\ UNCHANGED <<call, input_dir, ligand_info, f0_start,
                   f0_end, f1_start, f1_end, c_target, model_choice,
                   all_data_points, replicate_selection_vars,
                   ligand_group_selector, picks, toggled>>

\* param_names, chosen by the model choice at the time of the export
param_names(model) ==
    CASE model = "Hill" -> <<"Bottom", "Top", "logKd", "Hill Slope">>
      [] model = "Kd" -> <<"Unbound", "Bound", "Kd (M)">>
      [] OTHER -> <<"Bottom", "Top", "logEC50", "Hill Slope">>

\* the _Averaged sheet of a group
AveragedSheet(group, data) ==
    [group |-> group, kind |-> "Averaged",
     labels |-> <<"Concentration (M)", "Fnorm_Mean", "Fnorm_SEM">>,
     values |-> <<>>, status |-> ""]

\* the _FitParams sheet of a group: the index labels and their values.
\* data['fit_popt'][i] raises IndexError when there are more names than
\* parameters, and the sheet is not written.  For the Kd model the result
\* label is the label of the third parameter, whose row it overwrites
FitParamsSheet(group, data) ==
    LET names == param_names(model_choice)
        params == [k \in 1..Len(names) |-> data.fit_popt[k]]
    IN  IF ~data.fit_success
        THEN [sheet |-> [group |-> group, kind |-> "FitParams",
                         labels |-> <<"Fit Status">>, values |-> <<>>,
                         status |-> data.fit_comment],
              raised |-> "none"]
        ELSE IF Len(names) > Len(data.fit_popt)
        THEN [sheet |-> <<>>, raised |-> "IndexError"]
        ELSE [sheet |->
                 [group |-> group, kind |-> "FitParams",
                  labels |->
                      CASE model_choice = "Hill" -> names \o <<"Kd (M)">>
                        [] model_choice = "Kd" ->
                               names \o <<"Target Concentration (M)">>
                        [] OTHER -> names \o <<"EC50 (M)">>,
                  values |->
                      IF model_choice = "Kd"
                      THEN <<params[1], params[2], data.kd_or_ec50_result,
                             c_target>>
                      ELSE AsList(params) \o <<data.kd_or_ec50_result>>,
                  status |-> ""],
              raised |-> "none"]

\* the sheets of one group
GroupSheets(group, data) ==
    IF ~data.has_data THEN [sheets |-> <<>>, raised |-> "none"]
    ELSE LET fp == FitParamsSheet(group, data)
         IN  IF fp.raised # "none"
             THEN [sheets |-> <<AveragedSheet(group, data)>>,
                   raised |-> fp.raised]
             ELSE [sheets |-> <<AveragedSheet(group, data), fp.sheet>>,
                   raised |-> "none"]

\* the combined sheet; the DataFrame of columns of unequal length raises
\* ValueError
CombinedSheet(w) ==
    IF w.data1.has_data /\ w.data2.has_data
    THEN IF Len(w.data1.avg_concs) # Len(w.data2.avg_concs)
         THEN [sheets |-> <<>>, raised |-> "ValueError"]
         ELSE [sheets |-> << [group |-> <<>>, kind |-> "Combined",
                              labels |-> <<"Concentration (M)">>,
                              values |-> <<>>, status |-> ""] >>,
               raised |-> "none"]
    ELSE IF w.data1.has_data
    THEN [sheets |-> << [AveragedSheet(w.group1_key, w.data1)
                            EXCEPT !.kind = "Combined"] >>,
          raised |-> "none"]
    ELSE IF w.data2.has_data
    THEN [sheets |-> << [AveragedSheet(w.group2_key, w.data2)
                            EXCEPT !.kind = "Combined"] >>,
          raised |-> "none"]
    ELSE [sheets |-> <<>>, raised |-> "none"]

\* the workbook: the sheets written until an exception leaves the handler
Workbook(w) ==
    LET s1 == GroupSheets(w.group1_key, w.data1)
        s2 == GroupSheets(w.group2_key, w.data2)
        s3 == CombinedSheet(w)
    IN  IF s1.raised # "none" THEN s1
        ELSE IF s2.raised # "none"
        THEN [sheets |-> s1.sheets \o s2.sheets, raised |-> s2.raised]
        ELSE [sheets |-> s1.sheets \o s2.sheets \o s3.sheets,
              raised |-> s3.raised]

\* the Export Merged Data button of the overlay window; file_path is what
\* the save dialog returns, "" when the user cancels
export_overlay_plot_data(file_path) ==
    /\ overlay # <<>>
    /\ overlay_export' =
           IF file_path = "" THEN overlay_export ELSE Workbook(overlay[1])
    /\ last_op' =
           IF file_path = "" THEN "overlay_export_cancelled"
           ELSE IF overlay_export'.raised # "none" THEN "overlay_export_raised"
           ELSE "overlay_export_ok"
    /\ fit_attempt' = "none"
    /\ processed_data' = InitialResult
    /\ UNCHANGED <<call, overlay, input_dir, ligand_info, f0_start, f0_end,
                   f1_start, f1_end, c_target, model_choice, all_data_points,
                   replicate_selection_vars, ligand_group_selector, picks,
                   toggled>>

\* ------------------------------------------------------------------------
\* Specifications
\* ------------------------------------------------------------------------
\* window texts with the default target text
ReduceWindows == {
    <<Text(0 - 3), Text(0), Text(5), Text(8)>>,
    <<Text(0 - 3), Text(0 - 1), Text(5), Text(7)>>,
    <<Text(0), Text(0), Text(5), Text(8)>>,
    <<Text(0 - 3), Text(0), BadTime, Text(7)>> }

WindowEntries ==
    {Entries(w[1], w[2], w[3], w[4], Text(<<1, 1000>>)) : w \in ReduceWindows}

ReduceTables == {TableAB, TableUpper, TableOne}

\* the reduction: loads and window changes
NextReduce ==
    \/ \E listing \in DirListings : browse_folder(TableAB, listing)
    \/ \E rows \in ReduceTables, listing \in DirListings :
           update_all_data_and_ui(rows, listing)
    \/ \E e \in WindowEntries : update_params(e)

SpecReduce == Init /\ [][NextReduce]_vars

\* the grouping of the files: loads with tables whose groups overlap,
\* window changes and a check box
GroupTables == {TableAB, TableUpper, TableOverlap, TableOverlapReversed,
                TableBothCases}

GroupWindows == { <<Text(0 - 3), Text(0), Text(5), Text(8)>>,
                  <<Text(0 - 3), Text(0 - 1), Text(5), Text(8)>>,
                  <<Text(0 - 3), Text(0), Text(5), Text(7)>> }

GroupEntries ==
    {Entries(w[1], w[2], w[3], w[4], Text(<<1, 1000>>)) : w \in GroupWindows}

NextGroups ==
    \/ browse_folder(TableAB, FullListing)
    \/ \E rows \in GroupTables : update_all_data_and_ui(rows, FullListing)
    \/ \E e \in GroupEntries : update_params(e)
    \/ on_replicate_toggle(FileA1)

SpecGroups == Init /\ [][NextGroups]_vars

\* the target concentration and the model: one load, then parameter entries
\* and check boxes
TargetWindows == { <<Text(0 - 3), Text(0), Text(5), Text(8)>>,
                   <<Text(0), Text(0), Text(5), Text(8)>> }

TargetEntries ==
    {Entries(w[1], w[2], w[3], w[4], t) : w \in TargetWindows, t \in TargetTexts}

NextTarget ==
    \/ browse_folder(TableA, FullListing)
    \/ \E e \in TargetEntries : update_params(e)
    \/ \E m \in Models, e \in TargetEntries : select_model(m, e)
    \/ \E f \in {FileA1, FileA2} : on_replicate_toggle(f)

SpecTarget == Init /\ [][NextTarget]_vars

PickWindows == { <<Text(0 - 3), Text(0), Text(5), Text(8)>>,
                 <<Text(0 - 3), Text(0 - 1), Text(5), Text(8)>> }

PickEntries ==
    {Entries(w[1], w[2], w[3], w[4], Text(<<1, 1000>>)) : w \in PickWindows}

\* the aggregation: one load, picks, check boxes, models, two windows and
\* the export
ModelEntries ==
    {Entries(Text(0 - 3), Text(0), Text(5), Text(8), Text(<<1, 1000>>))}

NextAggregate ==
    \/ browse_folder(TableA, FullListing)
    \/ \E m \in Markers(all_data_points, replicate_selection_vars,
                        ligand_group_selector) : on_pick(m[1], m[2])
    \/ \E f \in {FileA1, FileA2} : on_replicate_toggle(f)
    \/ \E m \in Models, e \in ModelEntries : select_model(m, e)
    \/ \E e \in PickEntries : update_params(e)
    \/ \E outcome \in FitOutcomes : export_main_plot_data(outcome)

SpecAggregate == Init /\ [][NextAggregate]_vars

\* the overlay: a load of two groups, the check box of a2.csv, models,
\* overlay windows whose two regressions end alike, and their export
OverlayKeys == {<<>>, <<"a">>, <<"b">>}
OverlayOutcomes == {"converged", "RuntimeError"}
SavePaths == {"", "overlay.xlsx"}

NextOverlay ==
    \/ browse_folder(TableAB, FullListing)
    \/ on_replicate_toggle(FileA2)
    \/ \E m \in Models, e \in ModelEntries : select_model(m, e)
    \/ \E g1 \in OverlayKeys, g2 \in OverlayKeys, o \in OverlayOutcomes :
           generate_overlay_plot(g1, g2, o, o)
    \/ \E file_path \in SavePaths : export_overlay_plot_data(file_path)

SpecOverlay == Init /\ [][NextOverlay]_vars

\* the seeds of the fit: a load, check boxes, models with two targets and
\* the export
SeedEntries ==
    {Entries(Text(0 - 3), Text(0), Text(5), Text(8), Text(t)) :
         t \in {<<1, 1000>>, <<1, 10000000>>}}

NextSeeds ==
    \/ browse_folder(TableA, SeedListing)
    \/ \E f \in {FileA1, FileA5} : on_replicate_toggle(f)
    \/ \E m \in Models, e \in SeedEntries : select_model(m, e)
    \/ \E outcome \in FitOutcomes : export_main_plot_data(outcome)

SpecSeeds == Init /\ [][NextSeeds]_vars

\* picks among two traces that share a point, with their check boxes
NextPairs ==
    \/ browse_folder(TableA, PairListing)
    \/ \E m \in Markers(all_data_points, replicate_selection_vars,
                        ligand_group_selector) : on_pick(m[1], m[2])
    \/ \E f \in {FileA1, FileA4} : on_replicate_toggle(f)
    \/ \E e \in PickEntries : update_params(e)

SpecPairs == Init /\ [][NextPairs]_vars

\* exclusions: loads, picks and two valid windows
PickTables == LigandTables \ {TableAB}

Next ==
    \/ browse_folder(TableA, FullListing)
    \/ \E rows \in PickTables : update_all_data_and_ui(rows, FullListing)
    \/ \E e \in PickEntries : update_params(e)
    \/ \E m \in Markers(all_data_points, replicate_selection_vars,
                        ligand_group_selector) : on_pick(m[1], m[2])

Spec == Init /\ [][Next]_vars

\* the functions of the module, each called once on arguments drawn from
\* the sets above
FunctionCalls == KdCalls \cup FormatCalls

InitFunctions ==
    __init__ /\ call \in FunctionCalls /\ overlay = <<>> /\ overlay_export = NoExport

NextFunctions ==
    \/ Call_kd_model
    \/ Call_format_molar_conc

SpecFunctions == InitFunctions /\ [][NextFunctions]_vars

\* ------------------------------------------------------------------------
\* Properties of the reduction (SpecReduce)
\* ------------------------------------------------------------------------
\* the last handler ran recalculate_all_fnorms
Recalculated == last_op \in {"params_ok", "load_ok"}

\* positions <<g, f>> of the traces a recalculation reduces: those of the
\* groups that ligand_info names
ReducedTraces ==
    {x \in UNION {{<<g, f>> : f \in 1..Len(all_data_points[g].files)} :
                     g \in 1..Len(all_data_points)} :
        all_data_points[x[1]].key \in Keys(ligand_info)}

Trace(x) == all_data_points[x[1]].files[x[2]]
InfoOf(x) == Lookup(ligand_info, all_data_points[x[1]].key)

\* the samples of capillary cap with start <= time < end, and with
\* time = end as well when closed
SamplesIn(tr, cap, start, end, closed) ==
    {r \in 1..Len(tr.Times) :
        /\ tr.Capillary_Positions[r] = cap
        /\ start <= tr.Times[r]
        /\ (tr.Times[r] < end \/ (closed /\ tr.Times[r] = end))}

WindowMean(tr, cap, start, end, closed) ==
    SeriesMean(tr.Ratios, SamplesIn(tr, cap, start, end, closed))

FnormBy(tr, cap, closed) ==
    FDiv(WindowMean(tr, cap, f1_start, f1_end, closed),
         WindowMean(tr, cap, f0_start, f0_end, closed))

\* C1 (as amended): after a recalculation the Fnorm of every stored point is
\* the mean ratio over the samples of its capillary in the F1 window divided
\* by the mean over those in the F0 window, each window being closed: a
\* sample whose time equals the window end is counted.
C1_FnormClosedWindows ==
    Recalculated =>
        \A x \in ReducedTraces : \A j \in 1..Len(Trace(x).fnorms) :
            Trace(x).fnorms[j] = FnormBy(Trace(x), Trace(x).caps[j], TRUE)

\* C1 as stated: the same with half-open windows [start, end)
C1_FnormHalfOpenWindows ==
    Recalculated =>
        \A x \in ReducedTraces : \A j \in 1..Len(Trace(x).fnorms) :
            Trace(x).fnorms[j] = FnormBy(Trace(x), Trace(x).caps[j], FALSE)

\* a stored point whose capillary has a sample exactly at the F1 window end
C1_SampleAtWindowEnd ==
    /\ Recalculated
    /\ f1_start < f1_end
    /\ \E x \in ReducedTraces : \E j \in 1..Len(Trace(x).fnorms) :
           \E r \in 1..Len(Trace(x).Times) :
               /\ Trace(x).Capillary_Positions[r] = Trace(x).caps[j]
               /\ Trace(x).Times[r] = f1_end

\* number of distinct capillary positions of the trace below cap
Rank(tr, cap) ==
    Cardinality({c \in Range(tr.Capillary_Positions) : c < cap})

\* C2: after a recalculation every stored point of every trace comes from a
\* capillary of rank below 16 among the distinct capillary positions of the
\* trace, its concentration times dilution_factor^rank is max_concentration,
\* and the points are stored in ascending capillary order.
C2_LadderByRank ==
    Recalculated =>
        \A x \in ReducedTraces :
            /\ Len(Trace(x).concentrations) = Len(Trace(x).fnorms)
            /\ Len(Trace(x).concentrations) = Len(Trace(x).caps)
            /\ \A j \in 1..Len(Trace(x).concentrations) :
                   /\ Trace(x).caps[j] \in Range(Trace(x).Capillary_Positions)
                   /\ Rank(Trace(x), Trace(x).caps[j]) < LadderLen
                   /\ FMul(Trace(x).concentrations[j],
                           FPow(InfoOf(x).df, Rank(Trace(x), Trace(x).caps[j])))
                          = InfoOf(x).max_conc
                   /\ \A i \in 1..(j - 1) : Trace(x).caps[i] < Trace(x).caps[j]

\* a trace with more than 16 capillaries that stores a point for the last
\* ladder entry and none for the capillaries beyond it
C2_TraceBeyondLadder ==
    /\ Recalculated
    /\ \E x \in ReducedTraces :
           /\ \E c \in Range(Trace(x).Capillary_Positions) :
                  Rank(Trace(x), c) >= LadderLen
           /\ \E j \in 1..Len(Trace(x).caps) :
                  Rank(Trace(x), Trace(x).caps[j]) = LadderLen - 1

\* C3: every group configuration held in ligand_info has a dilution factor
\* greater than 1 and a strictly descending ladder.
C3_DilutionAboveOne ==
    \A k \in 1..Len(ligand_info) :
        /\ FLt(Num(1), ligand_info[k].df)
        /\ \A i \in 1..(LadderLen - 1) :
               FLt(expected_concentrations(ligand_info[k].max_conc,
                                           ligand_info[k].df)[i + 1],
                   expected_concentrations(ligand_info[k].max_conc,
                                           ligand_info[k].df)[i])

\* C4: after a recalculation every stored point has a finite Fnorm, a
\* defined non-zero F0 mean and a concentration above 0.
C4_StoredPointsFinite ==
    Recalculated =>
        \A x \in ReducedTraces : \A j \in 1..Len(Trace(x).fnorms) :
            /\ IsFinite(Trace(x).fnorms[j])
            /\ FPositive(Trace(x).concentrations[j])
            /\ ~IsNaN(WindowMean(Trace(x), Trace(x).caps[j],
                                 f0_start, f0_end, TRUE))
            /\ ~FIsZero(WindowMean(Trace(x), Trace(x).caps[j],
                                   f0_start, f0_end, TRUE))

\* C5: every recalculation runs with f0_start < f0_end and f1_start < f1_end.
C5_ValidWindowsUsed ==
    Recalculated => (f0_start < f0_end /\ f1_start < f1_end)

\* ------------------------------------------------------------------------
\* Properties of the target concentration (SpecTarget)
\* ------------------------------------------------------------------------
\* C6: no reduction and no Kd fit runs with c_target <= 0.
C6_PositiveTarget ==
    (Recalculated \/ fit_attempt = "Kd") => FPositive(c_target)

\* ------------------------------------------------------------------------
\* Properties of the exclusions (Spec)
\* ------------------------------------------------------------------------
\* the text of a maximum concentration or of a dilution factor is not a
\* number, or is a number <= 0
InvalidValues(row) ==
    \/ ~row.max.ok
    \/ ~row.df.ok
    \/ ~FPositive(row.max.val)
    \/ ~FPositive(row.df.val)

NamedRows(rows) == {k \in 1..Len(rows) : Strip(rows[k].key) # <<>>}

\* a step of load_all_data reading the table rows
LoadStep(rows) ==
    \E listing \in DirListings :
        browse_folder(rows, listing) \/ update_all_data_and_ui(rows, listing)

\* the load stopped before any computation and changed nothing
RejectedUnchanged ==
    /\ last_op' \in {"load_rejected", "load_nodir"}
    /\ ligand_info' = ligand_info
    /\ all_data_points' = all_data_points

SomeExclusion ==
    \E g \in 1..Len(all_data_points) :
        \E f \in 1..Len(all_data_points[g].files) :
            all_data_points[g].files[f].excluded_indices # {}

\* C7 (as amended): a load whose table has a row with a non-blank group
\* name and a non-numeric or non-positive maximum concentration or dilution
\* factor stops before any computation and leaves ligand_info,
\* all_data_points and every exclusion set as they were.
C7_InvalidNamedRowRejected ==
    [][\A rows \in LigandTables :
          ((\E k \in NamedRows(rows) : InvalidValues(rows[k])) /\ LoadStep(rows))
              => RejectedUnchanged]_vars

\* C7 as stated: the same for any row, whatever its name
C7_InvalidRowRejected ==
    [][\A rows \in LigandTables :
          ((\E k \in 1..Len(rows) : InvalidValues(rows[k])) /\ LoadStep(rows))
              => RejectedUnchanged]_vars

\* a rejected load in a state that holds exclusions
C7_RejectedWithExclusions == last_op = "load_rejected" /\ SomeExclusion

\* the exclusion set of every trace, by group and file name
ExclusionSets(adp) ==
    {<<adp[x[1]].key, adp[x[1]].files[x[2]].file_name,
       adp[x[1]].files[x[2]].excluded_indices>> :
        x \in UNION {{<<g, f>> : f \in 1..Len(adp[g].files)} :
                         g \in 1..Len(adp)}}

\* C8: the recalculation update_params runs after a window change leaves
\* the excluded_indices of every trace as it was.
C8_RecalculationKeepsExclusions ==
    [][last_op' = "params_ok" =>
          ExclusionSets(all_data_points') = ExclusionSets(all_data_points)]_vars

\* a recalculation after a parameter change in a state that holds exclusions
C8_RecalculatedWithExclusions == last_op = "params_ok" /\ SomeExclusion

\* C9: a stored point is excluded exactly when the point of the same file
\* and capillary position was clicked an odd number of times.
C9_ExclusionFollowsCapillary ==
    \A g \in 1..Len(all_data_points) :
        \A f \in 1..Len(all_data_points[g].files) :
            \A j \in 1..Len(all_data_points[g].files[f].caps) :
                ((j - 1) \in all_data_points[g].files[f].excluded_indices)
                    <=> (<<all_data_points[g].key,
                           all_data_points[g].files[f].file_name,
                           all_data_points[g].files[f].caps[j]>> \in toggled)

\* C10 (as amended): after a reload a trace whose file name and group key
\* are both unchanged keeps exactly the exclusion set it had before.
C10_SameGroupAndFileKeeps ==
    [][last_op' = "load_ok" =>
          \A g \in Keys(all_data_points) \cap Keys(all_data_points') :
              \A fn \in FileNames(Lookup(all_data_points, g).files)
                          \cap FileNames(Lookup(all_data_points', g).files) :
                  TraceOf(all_data_points', g, fn).excluded_indices
                      = TraceOf(all_data_points, g, fn).excluded_indices]_vars

\* C10 as stated: a trace whose file name is unchanged keeps its exclusion
\* set, whatever group it is filed under
C10_SameFileKeeps ==
    [][last_op' = "load_ok" =>
          \A g \in Keys(all_data_points), h \in Keys(all_data_points') :
              \A fn \in FileNames(Lookup(all_data_points, g).files)
                          \cap FileNames(Lookup(all_data_points', h).files) :
                  TraceOf(all_data_points', h, fn).excluded_indices
                      = TraceOf(all_data_points, g, fn).excluded_indices]_vars

\* a finished reload in a state that holds exclusions
C10_ReloadedWithExclusions == last_op = "load_ok" /\ SomeExclusion

\* ------------------------------------------------------------------------
\* Properties of picking and of the selection
\* ------------------------------------------------------------------------
CurrentMarkers ==
    Markers(all_data_points, replicate_selection_vars, ligand_group_selector)

\* all_data_points after a click on marker m of the plot of adp
PickAt(adp, m) ==
    PickResult(adp, replicate_selection_vars, ligand_group_selector,
        Lookup(adp, ligand_group_selector).files[m[1]].concentrations[m[2]],
        Lookup(adp, ligand_group_selector).files[m[1]].fnorms[m[2]])

\* C11: clicking a point twice gives back every exclusion set, and two
\* clicks give the same exclusion sets in either order.
C11_TogglesCancelAndCommute ==
    \A m \in CurrentMarkers :
        /\ PickAt(PickAt(all_data_points, m), m) = all_data_points
        /\ \A n \in CurrentMarkers :
               PickAt(PickAt(all_data_points, m), n)
                   = PickAt(PickAt(all_data_points, n), m)

\* a click has excluded a point and the plot shows two markers or more
C11_PickedAmongMarkers ==
    /\ last_op = "pick"
    /\ SomeExclusion
    /\ Cardinality(CurrentMarkers) >= 2

\* C12: a trace without a selection flag counts as selected for the
\* averaging, for the plot and for picking.
C12_DefaultSelected ==
    \A g \in 1..Len(all_data_points) :
        \A f \in 1..Len(all_data_points[g].files) :
            <<all_data_points[g].key, all_data_points[g].files[f].file_name>>
                    \notin DOMAIN replicate_selection_vars
                => /\ SelectedForAveraging(replicate_selection_vars,
                          all_data_points[g].key,
                          all_data_points[g].files[f].file_name)
                   /\ SelectedForPlot(replicate_selection_vars,
                          all_data_points[g].key,
                          all_data_points[g].files[f].file_name)
                   /\ SelectedForPick(replicate_selection_vars,
                          all_data_points[g].key,
                          all_data_points[g].files[f].file_name)

\* ------------------------------------------------------------------------
\* Properties of the aggregation (SpecAggregate)
\* ------------------------------------------------------------------------
\* the last handler was an export that got a result back
Exported == last_op \in {"export_ok", "export_nodata"}

CurrentFiles == Lookup(all_data_points, ligand_group_selector).files

\* the check box of the file exists and is off
FlagOff(file_name) ==
    /\ <<ligand_group_selector, file_name>> \in DOMAIN replicate_selection_vars
    /\ ~replicate_selection_vars[<<ligand_group_selector, file_name>>]

SelectedTraces ==
    {f \in 1..Len(CurrentFiles) : ~FlagOff(CurrentFiles[f].file_name)}

\* <<f, idx>>: point idx (from 0) of the selected trace f is not excluded
IncludedPoints ==
    {x \in UNION {{<<f, i - 1>> : i \in 1..Len(CurrentFiles[f].fnorms)} :
                     f \in SelectedTraces} :
        x[2] \notin CurrentFiles[x[1]].excluded_indices}

Averaged == processed_data.averaged

\* C13: the rows that reach the averaging are exactly the non-excluded
\* points of the selected traces of the group, each once and with the
\* concentration and Fnorm the trace stores.
C13_ContributingPoints ==
    Exported =>
        /\ {<<Averaged[k].file_name, Averaged[k].idx>> : k \in 1..Len(Averaged)}
               = {<<CurrentFiles[x[1]].file_name, x[2]>> : x \in IncludedPoints}
        /\ Len(Averaged) = Cardinality(IncludedPoints)
        /\ \A k \in 1..Len(Averaged) : \E x \in IncludedPoints :
               /\ Averaged[k].file_name = CurrentFiles[x[1]].file_name
               /\ Averaged[k].idx = x[2]
               /\ Averaged[k].Concentration
                      = CurrentFiles[x[1]].concentrations[x[2] + 1]
               /\ Averaged[k].Fnorm = CurrentFiles[x[1]].fnorms[x[2] + 1]

\* an export with a deselected trace, an excluded point of a selected trace
\* and points left to average
C13_ExportedWithGaps ==
    /\ last_op = "export_ok"
    /\ \E f \in 1..Len(CurrentFiles) : f \notin SelectedTraces
    /\ \E f \in SelectedTraces : \E i \in 1..Len(CurrentFiles[f].fnorms) :
           (i - 1) \in CurrentFiles[f].excluded_indices
    /\ Averaged # <<>>

\* the rows of the averaging at concentration c
RowsAt(c) == {k \in 1..Len(Averaged) : Averaged[k].Concentration = c}

\* C14: one aggregated point per distinct concentration, with a replicate
\* count equal to the number of contributing points at that concentration
\* and a standard error that is defined exactly when the count is 2 or more.
C14_OnePointPerConcentration ==
    (Exported /\ processed_data.has_data) =>
        /\ {processed_data.avg_concs[k] : k \in 1..Len(processed_data.avg_concs)}
               = {Averaged[k].Concentration : k \in 1..Len(Averaged)}
        /\ \A i, j \in 1..Len(processed_data.avg_concs) :
               i # j => processed_data.avg_concs[i] # processed_data.avg_concs[j]
        /\ \A k \in 1..Len(processed_data.avg_concs) :
               /\ processed_data.replicate_counts[k]
                      = Cardinality(RowsAt(processed_data.avg_concs[k]))
               /\ ~IsNaN(processed_data.avg_fnorms_errors[k])
                      <=> processed_data.replicate_counts[k] >= 2

\* (a + b) / 2 and the square of a - b
HalfSum(a, b) == FDiv(FAdd(a, b), Num(2))
SquaredDiff(a, b) == FMul(FSub(a, b), FSub(a, b))

\* the aggregated point k averages two rows, with finite Fnorm a and b, and
\* stores the mean (a + b) / 2 and a squared standard error of
\* (a - b)^2 / div
TwoReplicates(k, div) ==
    \A i, j \in RowsAt(processed_data.avg_concs[k]) :
        (i < j /\ IsFinite(Averaged[i].Fnorm) /\ IsFinite(Averaged[j].Fnorm)) =>
            /\ processed_data.avg_fnorms[k]
                   = HalfSum(Averaged[i].Fnorm, Averaged[j].Fnorm)
            /\ processed_data.avg_fnorms_errors[k]
                   = FDiv(SquaredDiff(Averaged[i].Fnorm, Averaged[j].Fnorm),
                          Num(div))

\* C15 (as amended): two replicates a and b at one concentration aggregate
\* to the mean (a + b) / 2 and the standard error |a - b| / 2, whose square
\* is (a - b)^2 / 4.
C15_TwoReplicatesSampleSem ==
    (Exported /\ processed_data.has_data) =>
        \A k \in 1..Len(processed_data.avg_concs) :
            processed_data.replicate_counts[k] = 2 => TwoReplicates(k, 4)

\* C15 as stated: the standard error is |a - b| / 2 / sqrt(2), whose square
\* is (a - b)^2 / 8
C15_TwoReplicatesStatedSem ==
    (Exported /\ processed_data.has_data) =>
        \A k \in 1..Len(processed_data.avg_concs) :
            processed_data.replicate_counts[k] = 2 => TwoReplicates(k, 8)

\* an export that averaged two different finite Fnorm at one concentration
C15_TwoDifferentReplicates ==
    /\ last_op = "export_ok"
    /\ \E k \in 1..Len(processed_data.avg_concs) :
           /\ processed_data.replicate_counts[k] = 2
           /\ \E i, j \in RowsAt(processed_data.avg_concs[k]) :
                  /\ IsFinite(Averaged[i].Fnorm)
                  /\ IsFinite(Averaged[j].Fnorm)
                  /\ Averaged[i].Fnorm # Averaged[j].Fnorm

\* C16: the aggregated points are in strictly ascending concentration.
C16_AscendingConcentrations ==
    Exported =>
        \A i, j \in 1..Len(processed_data.avg_concs) :
            i < j => FLt(processed_data.avg_concs[i], processed_data.avg_concs[j])

\* an export of two or more aggregated points whose rows were collected in
\* an order that is not ascending
C16_CollectedOutOfOrder ==
    /\ last_op = "export_ok"
    /\ Len(processed_data.avg_concs) >= 2
    /\ \E i, j \in 1..Len(Averaged) :
           i < j /\ FLt(Averaged[j].Concentration, Averaged[i].Concentration)

Replicates == processed_data.individual_replicates_data

\* the replicate entry rep lists the points of the trace data: every index
\* once, in the excluded lists exactly when it is in the exclusion set, and
\* with the stored concentration and Fnorm
Partitioned(rep, data) ==
    /\ Range(rep.Included_Index) \cap Range(rep.Excluded_Index) = {}
    /\ Range(rep.Included_Index) \cup Range(rep.Excluded_Index)
           = {i - 1 : i \in 1..Len(data.fnorms)}
    /\ Len(rep.Included_Index) + Len(rep.Excluded_Index) = Len(data.fnorms)
    /\ Range(rep.Excluded_Index)
           = {i - 1 : i \in 1..Len(data.fnorms)} \cap data.excluded_indices
    /\ Len(rep.Concentration) = Len(rep.Included_Index)
    /\ Len(rep.Fnorm) = Len(rep.Included_Index)
    /\ Len(rep.Excluded_Concentration) = Len(rep.Excluded_Index)
    /\ Len(rep.Excluded_Fnorm) = Len(rep.Excluded_Index)
    /\ \A k \in 1..Len(rep.Included_Index) :
           /\ rep.Concentration[k] = data.concentrations[rep.Included_Index[k] + 1]
           /\ rep.Fnorm[k] = data.fnorms[rep.Included_Index[k] + 1]
    /\ \A k \in 1..Len(rep.Excluded_Index) :
           /\ rep.Excluded_Concentration[k]
                  = data.concentrations[rep.Excluded_Index[k] + 1]
           /\ rep.Excluded_Fnorm[k] = data.fnorms[rep.Excluded_Index[k] + 1]

\* C17: the per-replicate data has one entry for every selected trace, whose
\* included and excluded lists are disjoint and together hold every point of
\* the trace once, a point being in the excluded lists exactly when its
\* index is in the exclusion set of the trace.
C17_ReplicateListsPartition ==
    Exported =>
        /\ Len(Replicates) = Cardinality(SelectedTraces)
        /\ \A f \in SelectedTraces : \E k \in 1..Len(Replicates) :
               Replicates[k].file_name = CurrentFiles[f].file_name
        /\ \A k \in 1..Len(Replicates) : \E f \in SelectedTraces :
               /\ Replicates[k].file_name = CurrentFiles[f].file_name
               /\ Partitioned(Replicates[k], CurrentFiles[f])

\* an export with a replicate that has both included and excluded points
C17_ReplicateWithBothLists ==
    /\ Exported
    /\ \E k \in 1..Len(Replicates) :
           /\ Replicates[k].Included_Index # <<>>
           /\ Replicates[k].Excluded_Index # <<>>

\* no trace of the group is selected, or every point of the selected traces
\* is excluded
NothingIncluded == IncludedPoints = {}

\* C18: with no selected trace, or with every point of the selected traces
\* excluded, the aggregation raises nothing and returns no data, no fit, no
\* aggregated point and a comment saying there is no included data.
C18_NoDataResult ==
    (last_op \in {"export_ok", "export_nodata", "export_raised"}
         /\ NothingIncluded) =>
        /\ processed_data.raised = "none"
        /\ ~processed_data.has_data
        /\ ~processed_data.fit_success
        /\ processed_data.avg_concs = <<>>
        /\ processed_data.avg_fnorms = <<>>
        /\ processed_data.avg_fnorms_errors = <<>>
        /\ processed_data.fit_outcome = "not_called"
        /\ processed_data.fit_comment
               = "No included data points for fitting in this group."

\* an export of a group with a selected trace whose points are all excluded
C18_EveryPointExcluded ==
    /\ last_op = "export_nodata"
    /\ SelectedTraces # {}
    /\ \E f \in SelectedTraces : CurrentFiles[f].fnorms # <<>>
    /\ NothingIncluded

\* C19: with one or two aggregated concentrations the result has data, and
\* whatever the model no regression is attempted: the fit did not succeed
\* and the comment says that there are not enough points.
C19_FitRefusedBelowThree ==
    (Exported /\ Len(processed_data.avg_concs) \in {1, 2}) =>
        /\ processed_data.has_data
        /\ ~processed_data.fit_success
        /\ processed_data.fit_outcome = "not_called"
        /\ processed_data.raised = "none"
        /\ processed_data.fit_comment
               = "Not enough unique data points for fit (need >= 3)."

\* an export of two aggregated concentrations under the Kd model
C19_TwoPointsKdModel ==
    /\ last_op = "export_ok"
    /\ Len(processed_data.avg_concs) = 2
    /\ model_choice = "Kd"

\* C20: an error raised by the regression is caught: nothing is raised to
\* the caller, the fit did not succeed, the comment describes the failure
\* and the aggregated points are returned.
C20_FitErrorsCaught ==
    processed_data.fit_outcome \in FitErrors =>
        /\ processed_data.raised = "none"
        /\ last_op = "export_ok"
        /\ ~processed_data.fit_success
        /\ processed_data.fit_comment
               \in {"Fit failed", "An unexpected error occurred during fit"}
        /\ processed_data.has_data
        /\ Len(processed_data.avg_concs) >= MinFitPoints
        /\ Len(processed_data.avg_fnorms) = Len(processed_data.avg_concs)

\* an export whose regression raised an error that is neither a
\* RuntimeError nor a ValueError
C20_UnexpectedFitError ==
    /\ last_op = "export_ok"
    /\ processed_data.fit_outcome = "OverflowError"
\* ------------------------------------------------------------------------
\* Properties of the fit models and of the formatting (SpecFunctions)
\* ------------------------------------------------------------------------
Returned(fn) == call.fn = fn /\ call.done

\* C21: kd_model with a target concentration above 0 returns exactly
\* unbound at a ligand concentration of 0 for every Kd >= 0; fraction_bound
\* is in [0, 1] for every input; with a target concentration of 0 the whole
\* result is NaN.
C21_KdModelBoundary ==
    Returned("kd_model") =>
        /\ (ELt(Num(0), call.args.c_target) /\ ELeq(Num(0), call.args.kd)) =>
               \A k \in DOMAIN call.args.c_ligand :
                   call.args.c_ligand[k] = Num(0) =>
                       call.out.value[k] = call.args.unbound
        /\ \A k \in DOMAIN call.out.fraction_bound :
               /\ ELeq(Num(0), call.out.fraction_bound[k])
               /\ ELeq(call.out.fraction_bound[k], Num(1))
        /\ FIsZero(call.args.c_target) =>
               \A k \in DOMAIN call.args.c_ligand : IsNaN(call.out.value[k])

\* C22: format_molar_conc gives "<Label> = NaN" for NaN whatever the unit,
\* and for a number with a unit outside M, mM, uM, nM, pM the molar
\* scientific notation it gives for the unit M.
C22_NaNAndFallbackFormat ==
    Returned("format_molar_conc") =>
        /\ IsNaN(call.args.conc_molar) =>
               call.out = call.args.label \o <<" ", "=", " ", "N", "a", "N">>
        /\ (~IsNaN(call.args.conc_molar)
               /\ call.args.unit \notin DisplayUnits) =>
               /\ call.out = format_molar_conc(call.args.conc_molar,
                                 call.args.label, <<"M">>)
               /\ SubSeq(call.out, Len(call.out) - 1, Len(call.out))
                      = <<" ", "M">>
               /\ (IsFinite(call.args.conc_molar) => "e" \in Range(call.out))

\* the call formatted 1.25e-5 with a unit that is not one of the five
C22_FallbackFormatted ==
    /\ Returned("format_molar_conc")
    /\ call.args.unit = <<"k", "M">>
    /\ call.args.conc_molar = <<1, 80000>>
    /\ call.out = call.args.label
                     \o <<" ", "=", " ", "1", ".", "2", "5", "e", "-", "0", "5",
                          " ", "M">>

\* ------------------------------------------------------------------------
\* Properties of the grouping of the files (SpecGroups)
\* ------------------------------------------------------------------------
\* the positions of the groups that hold a trace of the file
GroupsHolding(file_name) ==
    {g \in 1..Len(all_data_points) :
        file_name \in FileNames(all_data_points[g].files)}

\* the positions of the declared groups whose name starts the file name,
\* ignoring case
PrefixGroups(file_name) ==
    {k \in 1..Len(ligand_info) :
        /\ Len(ligand_info[k].key) <= Len(file_name)
        /\ \A j \in 1..Len(ligand_info[k].key) :
               LowerChar(ligand_info[k].key[j]) = LowerChar(file_name[j])}

\* C23: after a load each .csv file is in at most one group: that of the
\* first declared group whose name is a prefix of the file name, ignoring
\* case, and in none if there is no such group.
C23_FirstMatchingGroup ==
    last_op = "load_ok" =>
        \A file_name \in Range(CsvFiles(FullListing)) :
            /\ Cardinality(GroupsHolding(file_name)) <= 1
            /\ PrefixGroups(file_name) = {} => GroupsHolding(file_name) = {}
            /\ \A k \in PrefixGroups(file_name) :
                   (\A n \in PrefixGroups(file_name) : k <= n) =>
                       \E g \in GroupsHolding(file_name) :
                           all_data_points[g].key = ligand_info[k].key

\* a load that left one file without group and gave a file that two groups
\* match to one of them
C23_SkippedAndContested ==
    /\ last_op = "load_ok"
    /\ \E file_name \in Range(CsvFiles(FullListing)) :
           PrefixGroups(file_name) = {}
    /\ \E file_name \in Range(CsvFiles(FullListing)) :
           Cardinality(PrefixGroups(file_name)) >= 2

\* ------------------------------------------------------------------------
\* Properties of the parameter entries (SpecReduce)
\* ------------------------------------------------------------------------
\* C25: an update_params that rejects its input (a window whose start is not
\* below its end, or a text that is not a number) leaves f0_start, f0_end,
\* f1_start, f1_end and c_target as they were and changes no stored point.
C25_RejectedParamsUnchanged ==
    [][((\E e \in WindowEntries : update_params(e))
           /\ last_op' = "params_rejected") =>
          /\ f0_start' = f0_start
          /\ f0_end' = f0_end
          /\ f1_start' = f1_start
          /\ f1_end' = f1_end
          /\ c_target' = c_target
          /\ all_data_points' = all_data_points]_vars

\* ------------------------------------------------------------------------
\* Properties of the exclusion sets (Spec)
\* ------------------------------------------------------------------------
\* C26: every index in the excluded_indices of a trace is the index of a
\* stored point of that trace: 0 <= index < number of stored concentrations.
C26_ExcludedIndicesInRange ==
    \A g \in 1..Len(all_data_points) :
        \A f \in 1..Len(all_data_points[g].files) :
            \A i \in all_data_points[g].files[f].excluded_indices :
                0 <= i /\ i < Len(all_data_points[g].files[f].concentrations)

\* the exclusion sets after a toggle of point idx (from 1) of the cf-th
\* file of the group on display, and of nothing else
ToggledAt(cf, idx) ==
    [all_data_points EXCEPT
        ![IndexOf(all_data_points, ligand_group_selector)].files[cf]
            .excluded_indices = Flip(@, idx - 1)]

\* C27: a pick on the marker of a point of a selected trace toggles the
\* exclusion of that point in that trace and changes no other exclusion,
\* also when another selected trace has a point with the same concentration
\* and Fnorm.
C27_PickTogglesThatPoint ==
    [][\A m \in Markers(all_data_points, replicate_selection_vars,
                        ligand_group_selector) :
          on_pick(m[1], m[2]) => all_data_points' = ToggledAt(m[1], m[2])]_vars

\* ------------------------------------------------------------------------
\* Properties of the fit result (SpecAggregate)
\* ------------------------------------------------------------------------
\* the number of parameters of a model
ParamLength(m) == IF m = "Kd" THEN 3 ELSE 4

\* C28: a result with fit_success set has data, a parameter vector that is
\* not None and has the length of the model (4 for Hill and Dose-Response,
\* 3 for Kd), a derived affinity that is not NaN and the comment that names
\* the model in use; a result without fit_success has no parameter vector
\* and a NaN derived affinity.
C28_FitResultConsistent ==
    /\ processed_data.fit_success =>
           /\ processed_data.has_data
           /\ processed_data.fit_popt # <<>>
           /\ ~IsNaN(processed_data.kd_or_ec50_result)
           /\ \E m \in Models :
                  /\ processed_data.fit_comment = ModelComment(m)
                  /\ Len(processed_data.fit_popt) = ParamLength(m)
                  /\ last_op = "export_ok" => m = model_choice
    /\ ~processed_data.fit_success =>
           /\ processed_data.fit_popt = <<>>
           /\ IsNaN(processed_data.kd_or_ec50_result)

\* a Kd fit that ended on its bounds is stored
C28_KdFitStored ==
    /\ last_op = "export_ok"
    /\ model_choice = "Kd"
    /\ processed_data.fit_outcome = "converged_at_bound"
    /\ processed_data.fit_success
    /\ Len(processed_data.fit_popt) = 3
    /\ processed_data.kd_or_ec50_result = kd_upper_bound

\* the least and the greatest of three numbers none of which is NaN
Least3(a, b, c) ==
    CHOOSE x \in {a, b, c} : \A y \in {a, b, c} : ELeq(x, y)

Greatest2(a, b) == CHOOSE x \in {a, b} : \A y \in {a, b} : ELeq(y, x)

\* the seeds of the fit are inside its bounds and the top is above the
\* bottom
SeedInsideBounds(seed) ==
    /\ \A k \in 1..Len(seed.p0) :
           ELeq(seed.lower[k], seed.p0[k]) /\ ELeq(seed.p0[k], seed.upper[k])
    /\ ELt(seed.p0[1], seed.p0[2])

\* C30: whenever at least three aggregated points reach the fit, every seed
\* is inside its bounds (lower <= p0 <= upper), the seed of the top is
\* strictly above the seed of the bottom, and for the Kd model the seed of
\* Kd is max(1e-9, min(median concentration, target, 1e-6)) and lies in
\* [1e-12, 1e-2].
C30_SeedsInsideBounds ==
    processed_data.seed # <<>> =>
        /\ Len(processed_data.avg_fnorms) >= MinFitPoints
        /\ SeedInsideBounds(processed_data.seed)
        /\ Len(processed_data.seed.p0) = 3 =>
               /\ processed_data.seed.p0[3] =
                      Greatest2(KdSeedFloor,
                                Least3(Median(processed_data.avg_concs),
                                       c_target, KdSeedCeiling))
               /\ ELeq(kd_lower_bound, processed_data.seed.p0[3])
               /\ ELeq(processed_data.seed.p0[3], kd_upper_bound)

\* ------------------------------------------------------------------------
\* Properties of the overlay export (SpecOverlay)
\* ------------------------------------------------------------------------
\* C29: the parameter names of every _FitParams sheet that the overlay
\* export wrote for a successful fit are the names of the model that
\* produced the parameters, also when the model choice changed between the
\* overlay plot and the export.
C29_OverlayNamesOfFittedModel ==
    last_op \in {"overlay_export_ok", "overlay_export_raised"} =>
        \A k \in 1..Len(overlay_export.sheets) :
            (/\ overlay_export.sheets[k].kind = "FitParams"
             /\ overlay_export.sheets[k].status = "") =>
                SubSeq(overlay_export.sheets[k].labels, 1,
                       Len(param_names(overlay[1].model)))
                    = param_names(overlay[1].model)
====
